---------------------------- MODULE Spec2Model ----------------------------
(***************************************************************************)
(* Model of pulsar's server side HTTP response cycle                       *)
(* (pulsar/apps/wsgi/server.py): keep_alive, HttpServerResponse.           *)
(* wsgi_environ, start_response, get_headers, send_headers, is_chunked     *)
(* and the generator HttpServerResponse.generate.                          *)
(*                                                                         *)
(* Byte strings are modelled by what the code reads of them: a body        *)
(* fragment is the slice [src, frag, off, len] of the frag-th fragment of  *)
(* the body sequence src, so that slicing (b[:n], b[n:]), truthiness       *)
(* (len > 0) and len() are computed as the code computes them.             *)
(***************************************************************************)
EXTENDS Integers, Sequences, FiniteSets, TLC

(* ------------------------------ bounds --------------------------------- *)
\* fragments the application's body sequence may yield in one cycle
MaxFragments == 2
\* fragments the substitute error response's body may yield
MaxErrFragments == 1
\* Connection values of the header sets keep_alive is applied to on its own
MaxConnValues == 2
\* calls of start_response the application makes after its first
MaxRecalls == 1
\* calls made on a Mapper
MaxMapperCalls == 3
\* characters of an X-Forwarded-For value
MaxForwardLen == 4
\* calls of data_received for one request
MaxReceives == 3
\* calls of expect_continue made from outside data_received
MaxExpectCalls == 2
\* fragments of a body sequence encoded on its own
MaxChunkFragments == 2
MaxWrites == 1
MaxRouterCalls == 3

(* ----------------------- program constants ----------------------------- *)
MAX_CHUNK_SIZE == 65536

\* None of Python, for the fields that hold a tuple/sequence or None
None == <<>>

(* ------------------------- strings and bytes --------------------------- *)
\* str.lower() on the header names and tokens the model uses
LowerTable ==
    ("Connection" :> "connection") @@ ("Upgrade" :> "upgrade") @@
    ("Close" :> "close") @@ ("Keep-Alive" :> "keep-alive") @@
    ("Transfer-Encoding" :> "transfer-encoding") @@
    ("Content-Length" :> "content-length") @@
    ("Content-Type" :> "content-type") @@ ("Server" :> "server") @@
    ("Date" :> "date") @@ ("Chunked" :> "chunked") @@ ("TE" :> "te") @@
    ("X-Forwarded-For" :> "x-forwarded-for") @@ ("Expect" :> "expect")

Lower(s) == IF s \in DOMAIN LowerTable THEN LowerTable[s] ELSE s

\* a fragment of a body sequence, as a slice of itself
Bytes(src, frag, len) == [src |-> src, frag |-> frag, off |-> 0, len |-> len]

\* b'' written as a literal in the code
EmptyBytes == [src |-> "literal", frag |-> 0, off |-> 0, len |-> 0]

\* b[:n]
Take(b, n) == [b EXCEPT !.len = IF n < b.len THEN n ELSE b.len]

\* b[n:]
Drop(b, n) ==
    IF n < b.len THEN [b EXCEPT !.off = b.off + n, !.len = b.len - n]
    ELSE [b EXCEPT !.off = b.off + b.len, !.len = 0]

HexDigits == <<"0", "1", "2", "3", "4", "5", "6", "7", "8", "9",
               "A", "B", "C", "D", "E", "F">>

\* "%X" % n, as the sequence of its digits
RECURSIVE Hex(_)
Hex(n) == IF n < 16 THEN <<HexDigits[n + 1]>>
          ELSE Append(Hex(n \div 16), HexDigits[(n % 16) + 1])

HexChunkHead(chunk) == Hex(chunk.len)

RECURSIVE Dec(_)
\* str(n) of a natural number
Dec(n) == IF n < 10 THEN <<HexDigits[n + 1]>>
          ELSE Append(Dec(n \div 10), HexDigits[(n % 10) + 1])

DecChunkHead(chunk) == Dec(chunk.len)

\* chunk_encoding changed: the size is written with "%d"
chunk_encoding_decimal(chunk) ==
    [kind |-> "chunk", head |-> DecChunkHead(chunk), data |-> chunk]

\* chunk_encoding(chunk): head + chunk + CRLF
chunk_encoding(chunk) ==
    [kind |-> "chunk", head |-> HexChunkHead(chunk), data |-> chunk]

\* a fragment yielded as it is
RawItem(b) == [kind |-> "raw", data |-> b]

(* ------------------------------ Headers -------------------------------- *)
\* A header set is a sequence of <<name, value>> pairs in insertion order;
\* every lookup compares names case-insensitively.
HOP_HEADERS == {"connection", "keep-alive", "proxy-authenticate",
                "proxy-authorization", "te", "trailers",
                "transfer-encoding", "upgrade"}

RECURSIVE SelectValues(_, _)
SelectValues(h, name) ==
    IF h = <<>> THEN <<>>
    ELSE IF Lower(h[1][1]) = Lower(name)
         THEN <<h[1][2]>> \o SelectValues(Tail(h), name)
         ELSE SelectValues(Tail(h), name)

\* Headers.get_all(name, ())
HeadersGetAll(h, name) == SelectValues(h, name)

HeadersHas(h, name) == HeadersGetAll(h, name) # <<>>

\* Headers.get(name): the first value, "" standing for None (both falsy)
HeadersGet(h, name) ==
    IF HeadersHas(h, name) THEN HeadersGetAll(h, name)[1] ELSE ""

RECURSIVE HeadersPop(_, _)
\* Headers.pop(name, None)
HeadersPop(h, name) ==
    IF h = <<>> THEN <<>>
    ELSE IF Lower(h[1][1]) = Lower(name) THEN HeadersPop(Tail(h), name)
         ELSE <<h[1]>> \o HeadersPop(Tail(h), name)

\* Headers.add_header(name, value): appends, never overwrites
HeadersAdd(h, name, value) == Append(h, <<name, value>>)

\* headers[name] = value: the name now has this one value
HeadersSet(h, name, value) ==
    IF HeadersHas(h, name)
    THEN LET i == CHOOSE k \in 1..Len(h) :
                    /\ Lower(h[k][1]) = Lower(name)
                    /\ \A j \in 1..(k - 1) : Lower(h[j][1]) # Lower(name)
         IN  SubSeq(h, 1, i - 1) \o <<<<name, value>>>>
                 \o HeadersPop(SubSeq(h, i + 1, Len(h)), name)
    ELSE Append(h, <<name, value>>)

\* Headers.flat(version, status): status line, headers, blank line
HeadersFlat(h, version, status) ==
    [kind |-> "head", version |-> version, status |-> status, headers |-> h]

(* ------------------------- helpers not in src -------------------------- *)
\* has_empty_content(status): statuses with a status-defined empty body
has_empty_content(code) == (100 <= code /\ code < 200) \/ code = 204 \/ code = 304

\* the redirect-class statuses
REDIRECT_CODES == {301, 302, 303, 307}

\* An exception is <<kind, status>>: an HttpException carries its status.
HttpException(code) == <<"HttpException", code>>

\* HttpException with its default status
HttpExceptionDefault == <<"HttpException", 500>>

\* raise (exc_info[0], exc_info[1], exc_info[2]): raising a tuple
RaiseTuple == <<"TypeError", 0>>

\* the errors an application may raise
AppExceptions == {<<"ValueError", 0>>, HttpException(302)}

\* reason phrases
Reason(code) ==
    CASE code = 200 -> "OK"
      [] code = 101 -> "Switching Protocols"
      [] code = 204 -> "No Content"
      [] code = 302 -> "Found"
      [] code = 304 -> "Not Modified"
      [] code = 404 -> "Not Found"
      [] OTHER -> "Internal Server Error"

\* a status string such as "200 OK": its code and its reason
Status(code) == <<code, Reason(code)>>

\* int(status[:3])
StatusCode(status) == status[1]

\* handle_wsgi_error(environ, exc_info): the substitute response; its
\* status is derived from the error kind, internal error by default
handle_wsgi_error(exc) ==
    LET code == IF exc[1] = "HttpException" THEN exc[2] ELSE 500
    IN  [status_code |-> code,
         status |-> Status(code),
         headers |-> <<<<"Content-Type", "text/html">>>>]

(* -------------------------------- state -------------------------------- *)
VARIABLES
    pc,             \* position of the cycle
    version,        \* parser.get_version()
    request_headers,\* self._request_headers, as iterated
    headers,        \* self.headers
    keep_alive_,    \* self.keep_alive
    status,         \* self._status
    headers_sent,   \* self._headers_sent
    exc_info,       \* generate's exc_info
    wsgi_iter,      \* generate's wsgi_iter: "None", "iter" or "closeable"
    iterable,       \* the sequence being iterated: "None", "app" or "subst"
    pulls,          \* fragments pulled from the current iterable
    pending,        \* items generate yields before it pulls again
    wire,           \* items generate has yielded to transport.writelines
    closed,         \* calls of wsgi_iter.close()
    conn_closed,    \* calls of connection.close()
    finished,       \* calls of self.finished()
    hist,           \* history of the cycle, read by the properties only
    parser,         \* self.parser: what it has been fed and has parsed
    environ,        \* the WSGI environ built by wsgi_environ
    mapper,         \* a Mapper: _registered_models, _registered_names
    mapper_ret,     \* the last call made on the Mapper and its return value
    body,           \* fragments of a body sequence that are still to encode
    wsgi_callable,  \* self.wsgi_callable: what the application may do
    routers,        \* the Router objects: route, _parent, routes, parameters
    router_ret      \* the last call made on a Router and what it returned

vars == <<pc, version, request_headers, headers, keep_alive_, status,
          headers_sent, exc_info, wsgi_iter, iterable, pulls, pending, wire,
          closed, conn_closed, finished, hist, parser, environ, mapper,
          mapper_ret, body, wsgi_callable, routers, router_ret>>

\* the state of the Mapper
odm_vars == <<mapper, mapper_ret>>

\* the state of the Routers
router_vars == <<routers, router_ret>>

(* ------------------------------ keep_alive ----------------------------- *)
\* the tokens changed: compared as they were sent
ConnTokensCaseSensitive(h) ==
    LET vs == HeadersGetAll(h, "connection")
    IN  {vs[i] : i \in 1..Len(vs)}

\* conn = set(v.lower() for v in headers.get_all('connection', ()))
ConnTokens(h) ==
    LET vs == HeadersGetAll(h, "connection")
    IN  {Lower(vs[i]) : i \in 1..Len(vs)}

\* the version test of keep_alive's fourth branch
KeepAliveVersion(v) == v = <<1, 1>>

\* keep_alive changed: the version test comes before the 'close' test
keep_alive_version_first(h, v) ==
    LET conn == ConnTokens(h)
    IN  IF KeepAliveVersion(v) /\ "upgrade" \notin conn
        THEN [result |-> TRUE, headers |-> HeadersSet(h, "connection", "keep-alive")]
        ELSE IF "close" \in conn THEN [result |-> FALSE, headers |-> h]
        ELSE IF "upgrade" \in conn
        THEN [result |-> TRUE, headers |-> HeadersSet(h, "connection", "Upgrade")]
        ELSE IF "keep-alive" \in conn THEN [result |-> TRUE, headers |-> h]
        ELSE [result |-> FALSE, headers |-> h]

\* keep_alive(headers, version): the result and the headers it leaves
keep_alive(h, v) ==
    LET conn == ConnTokens(h)
    IN  IF "close" \in conn THEN [result |-> FALSE, headers |-> h]
        ELSE IF "upgrade" \in conn
        THEN [result |-> TRUE, headers |-> HeadersSet(h, "connection", "Upgrade")]
        ELSE IF "keep-alive" \in conn THEN [result |-> TRUE, headers |-> h]
        ELSE IF KeepAliveVersion(v)
        THEN [result |-> TRUE, headers |-> HeadersSet(h, "connection", "keep-alive")]
        ELSE [result |-> FALSE, headers |-> h]

(* --------------------- HttpServerResponse properties ------------------- *)
\* self.upgrade
upgrade(h) == HeadersGet(h, "Upgrade")

\* self.chunked
chunked(h) == HeadersGet(h, "Transfer-Encoding") = "chunked"

\* self.content_length: int(c) if c, else None
content_length(h) ==
    LET c == HeadersGet(h, "Content-Length")
    IN  IF c # "" THEN c ELSE "None"

\* tuple comparison version <= (1, 0)
VersionLE(a, b) == a[1] < b[1] \/ (a[1] = b[1] /\ a[2] <= b[2])

\* is_chunked changed: the Transfer-Encoding test comes before the status test
is_chunked_te_first(h, v, st) ==
    IF VersionLE(v, <<1, 0>>) THEN FALSE
    ELSE IF HeadersGet(h, "Transfer-Encoding") = "chunked" THEN TRUE
    ELSE IF has_empty_content(StatusCode(st)) THEN FALSE
    ELSE content_length(h) = "None"

\* is_chunked()
is_chunked(h, v, st) ==
    IF VersionLE(v, <<1, 0>>) THEN FALSE
    ELSE IF has_empty_content(StatusCode(st)) THEN FALSE
    ELSE IF HeadersGet(h, "Transfer-Encoding") = "chunked" THEN TRUE
    ELSE content_length(h) = "None"

(* ------------------------ HttpServerResponse --------------------------- *)
\* self._headers_sent before the header block was flattened
NotSent == [kind |-> "None"]

\* the fields of self that the response methods read and write
Self == [headers |-> headers, _status |-> status,
         _headers_sent |-> headers_sent, keep_alive |-> keep_alive_,
         version |-> version]

RECURSIVE AddResponseHeadersBreak(_, _)
\* the loop of start_response changed: it ends at the first hop-by-hop header
AddResponseHeadersBreak(h, response_headers) ==
    IF response_headers = <<>> THEN h
    ELSE LET header == response_headers[1][1]
             value == response_headers[1][2]
         IN  IF Lower(header) \in HOP_HEADERS
             THEN h
             ELSE AddResponseHeadersBreak(HeadersAdd(h, header, value),
                                          Tail(response_headers))

RECURSIVE AddResponseHeaders(_, _)
\* the loop of start_response: hop-by-hop headers are skipped
AddResponseHeaders(h, response_headers) ==
    IF response_headers = <<>> THEN h
    ELSE LET header == response_headers[1][1]
             value == response_headers[1][2]
         IN  IF Lower(header) \in HOP_HEADERS
             THEN AddResponseHeaders(h, Tail(response_headers))
             ELSE AddResponseHeaders(HeadersAdd(h, header, value),
                                     Tail(response_headers))

\* start_response changed: a status already set survives a call with exc_info
start_response_keeps_status(self, st, response_headers, exc) ==
    IF exc # None /\ self._headers_sent # NotSent
    THEN [raised |-> RaiseTuple, self |-> self]
    ELSE IF exc = None /\ self._status # None
    THEN [raised |-> HttpExceptionDefault, self |-> self]
    ELSE [raised |-> None,
          self |-> [self EXCEPT
                      !._status = IF self._status # None THEN @ ELSE st,
                      !.headers = AddResponseHeaders(self.headers,
                                                     response_headers)]]

\* start_response changed: a call without exc_info is accepted when the
\* status is already set
start_response_allows_second(self, st, response_headers, exc) ==
    IF exc # None /\ self._headers_sent # NotSent
    THEN [raised |-> RaiseTuple, self |-> self]
    ELSE [raised |-> None,
          self |-> [self EXCEPT
                      !._status = st,
                      !.headers = AddResponseHeaders(self.headers,
                                                     response_headers)]]

\* start_response(status, response_headers, exc_info): what it raises
\* (None when it returns) and the object it leaves
\* exc_info after the header block was sent is accepted like any other
start_response_late(self, st, response_headers, exc) ==
    IF exc = None /\ self._status # None
    THEN [raised |-> HttpExceptionDefault, self |-> self]
    ELSE [raised |-> None,
          self |-> [self EXCEPT
                      !._status = st,
                      !.headers = AddResponseHeaders(self.headers,
                                                     response_headers)]]

start_response(self, st, response_headers, exc) ==
    IF exc # None /\ self._headers_sent # NotSent
    THEN [raised |-> RaiseTuple, self |-> self]
    ELSE IF exc = None /\ self._status # None
    THEN [raised |-> HttpExceptionDefault, self |-> self]
    ELSE [raised |-> None,
          self |-> [self EXCEPT
                      !._status = st,
                      !.headers = AddResponseHeaders(self.headers,
                                                     response_headers)]]

\* get_headers changed: Transfer-Encoding is not removed when not chunked
get_headers_keeps_te(self, force) ==
    IF upgrade(self.headers) # "" \/ force
    THEN IF self._status = None
         THEN [raised |-> TRUE, tosend |-> FALSE, headers |-> self.headers]
         ELSE LET h1 == IF is_chunked(self.headers, self.version, self._status)
                        THEN HeadersPop(
                                 HeadersSet(self.headers,
                                            "Transfer-Encoding", "chunked"),
                                 "content-length")
                        ELSE self.headers
                  h2 == IF ~self.keep_alive
                        THEN HeadersSet(h1, "connection", "close")
                        ELSE h1
              IN  [raised |-> FALSE, tosend |-> TRUE, headers |-> h2]
    ELSE [raised |-> FALSE, tosend |-> FALSE, headers |-> self.headers]

\* get_headers changed: the connection header is not forced to 'close'
get_headers_no_close(self, force) ==
    IF upgrade(self.headers) # "" \/ force
    THEN IF self._status = None
         THEN [raised |-> TRUE, tosend |-> FALSE, headers |-> self.headers]
         ELSE LET h1 == IF is_chunked(self.headers, self.version, self._status)
                        THEN HeadersPop(
                                 HeadersSet(self.headers,
                                            "Transfer-Encoding", "chunked"),
                                 "content-length")
                        ELSE HeadersPop(self.headers, "Transfer-Encoding")
              IN  [raised |-> FALSE, tosend |-> TRUE, headers |-> h1]
    ELSE [raised |-> FALSE, tosend |-> FALSE, headers |-> self.headers]

\* get_headers changed: Content-Length is not removed when chunked
get_headers_keeps_cl(self, force) ==
    IF upgrade(self.headers) # "" \/ force
    THEN IF self._status = None
         THEN [raised |-> TRUE, tosend |-> FALSE, headers |-> self.headers]
         ELSE LET h1 == IF is_chunked(self.headers, self.version, self._status)
                        THEN HeadersSet(self.headers,
                                        "Transfer-Encoding", "chunked")
                        ELSE HeadersPop(self.headers, "Transfer-Encoding")
                  h2 == IF ~self.keep_alive
                        THEN HeadersSet(h1, "connection", "close")
                        ELSE h1
              IN  [raised |-> FALSE, tosend |-> TRUE, headers |-> h2]
    ELSE [raised |-> FALSE, tosend |-> FALSE, headers |-> self.headers]

\* get_headers changed: the headers are returned whatever force is
get_headers_always(self, force) ==
    IF self._status = None
    THEN [raised |-> TRUE, tosend |-> FALSE, headers |-> self.headers]
    ELSE LET h1 == IF is_chunked(self.headers, self.version, self._status)
                   THEN HeadersPop(
                            HeadersSet(self.headers,
                                       "Transfer-Encoding", "chunked"),
                            "content-length")
                   ELSE HeadersPop(self.headers, "Transfer-Encoding")
             h2 == IF ~self.keep_alive
                   THEN HeadersSet(h1, "connection", "close")
                   ELSE h1
         IN  [raised |-> FALSE, tosend |-> TRUE, headers |-> h2]

\* get_headers(force): whether it raised, whether it returned the headers
\* (and not None), and the headers it leaves
get_headers(self, force) ==
    IF upgrade(self.headers) # "" \/ force
    THEN IF self._status = None
         THEN [raised |-> TRUE, tosend |-> FALSE, headers |-> self.headers]
         ELSE LET h1 == IF is_chunked(self.headers, self.version, self._status)
                        THEN HeadersPop(
                                 HeadersSet(self.headers,
                                            "Transfer-Encoding", "chunked"),
                                 "content-length")
                        ELSE HeadersPop(self.headers, "Transfer-Encoding")
                  h2 == IF ~self.keep_alive
                        THEN HeadersSet(h1, "connection", "close")
                        ELSE h1
              IN  [raised |-> FALSE, tosend |-> TRUE, headers |-> h2]
    ELSE [raised |-> FALSE, tosend |-> FALSE, headers |-> self.headers]

\* send_headers changed: force is passed on as True when a status is set
send_headers_forced(self, force) ==
    IF self._headers_sent = NotSent
    THEN LET r == get_headers(self, force \/ self._status # None)
         IN  IF r.raised
             THEN [raised |-> TRUE, head |-> NotSent, self |-> self]
             ELSE IF r.tosend
             THEN LET flat == HeadersFlat(r.headers, self.version, self._status)
                  IN  [raised |-> FALSE, head |-> flat,
                       self |-> [self EXCEPT !.headers = r.headers,
                                             !._headers_sent = flat]]
             ELSE [raised |-> FALSE, head |-> NotSent, self |-> self]
    ELSE [raised |-> FALSE, head |-> NotSent, self |-> self]

\* send_headers(force): whether it raised, the head it returned (NotSent
\* standing for None) and the object it leaves
send_headers(self, force) ==
    IF self._headers_sent = NotSent
    THEN LET r == get_headers(self, force)
         IN  IF r.raised
             THEN [raised |-> TRUE, head |-> NotSent, self |-> self]
             ELSE IF r.tosend
             THEN LET flat == HeadersFlat(r.headers, self.version, self._status)
                  IN  [raised |-> FALSE, head |-> flat,
                       self |-> [self EXCEPT !.headers = r.headers,
                                             !._headers_sent = flat]]
             ELSE [raised |-> FALSE, head |-> NotSent, self |-> self]
    ELSE [raised |-> FALSE, head |-> NotSent, self |-> self]

RECURSIVE ChunkItems(_)
\* the chunk loop of generate: full chunks while len(b) >= MAX_CHUNK_SIZE,
\* then the rest if any
ChunkItems(b) ==
    IF b.len >= MAX_CHUNK_SIZE
    THEN <<chunk_encoding(Take(b, MAX_CHUNK_SIZE))>>
             \o ChunkItems(Drop(b, MAX_CHUNK_SIZE))
    ELSE IF b.len > 0 THEN <<chunk_encoding(b)>> ELSE <<>>

\* the fragment loop changed: an empty fragment is chunk-encoded as well
BodyItemsChunksEmpty(self, b) ==
    IF chunked(self.headers)
    THEN IF b.len > 0 THEN ChunkItems(b) ELSE <<chunk_encoding(EmptyBytes)>>
    ELSE <<RawItem(b)>>

\* what generate yields for the fragment b after send_headers
BodyItems(self, b) ==
    IF b.len > 0
    THEN IF chunked(self.headers) THEN ChunkItems(b) ELSE <<RawItem(b)>>
    ELSE <<RawItem(EmptyBytes)>>

\* the else clause changed: no last chunk is yielded
LastItemsNone(self) == <<>>

\* what generate yields in its else clause after send_headers(force=True)
LastItems(self) ==
    IF chunked(self.headers) THEN <<chunk_encoding(EmptyBytes)>> ELSE <<>>

\* the yield of a head that is not None
HeadItems(head) == IF head # NotSent THEN <<head>> ELSE <<>>

(* ------------------------------ inputs --------------------------------- *)
\* protocol versions the parser may report
Versions == {<<0, 9>>, <<1, 0>>, <<1, 1>>, <<1, 2>>}

\* the request's headers, in the order they are iterated
RequestHeaderSets ==
    { <<>>,
      <<<<"Connection", "Close">>>>,
      <<<<"Connection", "Keep-Alive">>>>,
      <<<<"Connection", "Upgrade">>, <<"Upgrade", "websocket">>>>,
      <<<<"Transfer-Encoding", "chunked">>>> }

\* the header lists an application passes to start_response
AppHeaderLists ==
    { <<<<"Content-Type", "text/plain">>>>,
      <<<<"Transfer-Encoding", "chunked">>, <<"Content-Length", "11">>>> }

\* the status codes an application passes to start_response
AppStatusCodes == {200, 204, 304}

\* the application made no call of start_response
NoCall == [status |-> None, headers |-> <<>>]

\* the calls of start_response an application makes
AppStartCalls ==
    [status : {Status(c) : c \in AppStatusCodes}, headers : AppHeaderLists]
        \cup {[status |-> Status(101),
               headers |-> <<<<"Content-Type", "text/plain">>>>]}

\* a second call of start_response without exc_info
SecondCall ==
    [status |-> Status(204),
     headers |-> <<<<"Content-Type", "text/plain">>>>,
     exc |-> None]

\* a call of start_response by an error handler of the application: it
\* supplies exc_info
ErrorCall ==
    [status |-> Status(404),
     headers |-> <<<<"Content-Type", "text/html">>>>,
     exc |-> <<"ValueError", 0>>]

\* the exc_info argument of a call
CallExc(call) == IF "exc" \in DOMAIN call THEN call.exc ELSE None

\* the lengths of the fragments an application yields
FragLens == {0, 5, 6, MAX_CHUNK_SIZE + 5}

\* the applications served: the calls of start_response they make first,
\* the kinds of iterable they return, the lengths of the fragments they
\* yield and the errors they raise
Application ==
    [calls |-> AppStartCalls, iters |-> {"iter", "closeable"},
     lens |-> FragLens, errors |-> AppExceptions]

\* the lengths of the fragments the substitute response yields
ErrFragLens == {9}

\* the error raised while the substitute response is iterated
SubstituteFailure == <<"RuntimeError", 0>>

\* SERVER_SOFTWARE and the formatted date
ServerHeaders == <<<<"Server", "pulsar">>, <<"Date", "now">>>>

\* a parser that has parsed a whole message; with_headers tells whether the
\* message was complete when its headers were taken, expect_calls counts
\* the calls of expect_continue made from outside data_received
ParserDone ==
    [fed |-> 0, headers_complete |-> TRUE, message_complete |-> TRUE,
     has_headers |-> TRUE, with_headers |-> TRUE, expect_calls |-> 0,
     message |-> [headers |-> <<>>, body |-> FALSE]]

\* a dictionary without keys
EmptyDict == [k \in {} |-> k]

\* the Routers constructed
Routers == {"root", "a1", "a2", "b"}

\* the rule of each Router's route: a1 and a2 serve equal routes
RouteOf(r) ==
    CASE r = "root" -> "/"
      [] r \in {"a1", "a2"} -> "/a"
      [] OTHER -> "/b"

\* Router.__init__ without children: no parent, no routes, and parameters
\* holding the content type
RoutersInit ==
    [r \in Routers |->
        [route |-> RouteOf(r), _parent |-> "None", routes |-> <<>>,
         parameters |-> ("content_type" :> r)]]

\* no call was made on a Router
NoRouterCall ==
    [op |-> "None", self |-> "None", router |-> "None", raised |-> "None",
     ret |-> "None", calls |-> 0]

\* Mapper.__init__: no model and no name is registered; created counts the
\* managers constructed, which gives each its identity
MapperInit == [_registered_models |-> EmptyDict,
               _registered_names |-> EmptyDict,
               created |-> 0]

\* no call was made on the Mapper
NoMapperCall == [op |-> "None"]

(* ------------------------------ history -------------------------------- *)
HistInit ==
    [app_calls |-> 0,        \* calls of wsgi_callable
     passes |-> 0,           \* passes of generate's while loop begun
     failures |-> <<>>,      \* the exceptions generate caught
     pulled |-> <<>>,        \* the fragments pulled: <<src, len>>
     policy |-> <<>>,        \* what get_headers decided on
     calls |-> <<>>,         \* the calls of start_response
     recalls |-> 0,          \* calls of start_response after the first
     flushes |-> <<>>,       \* what each fragment pulled made generate yield
     exhausted |-> FALSE,    \* the for loop ended: the else clause was entered
     writes |-> <<>>,        \* the lengths of the data passed to write
     conn_seen |-> {}]       \* the tokens keep_alive saw

\* the exception e caught by generate's except clause
FailureOf(self, e) ==
    [exc |-> e, sent |-> self._headers_sent # NotSent,
     second |-> exc_info # None, wire |-> Len(wire)]

\* what get_headers read when it finalized the header block
PolicyOf(pre, post) ==
    [version |-> pre.version, code |-> StatusCode(pre._status),
     te |-> HeadersGet(pre.headers, "Transfer-Encoding"),
     cl |-> HeadersHas(pre.headers, "Content-Length"),
     keep_alive |-> pre.keep_alive,
     chunked |-> chunked(post.headers)]

\* the call start_response(st, response_headers, exc) made with self as
\* pre, and its outcome r
CallOf(pre, st, response_headers, exc, r) ==
    [args |-> response_headers, new_status |-> st, exc |-> exc # None,
     sent |-> pre._headers_sent # NotSent,
     pre |-> pre.headers, pre_status |-> pre._status,
     raised |-> r.raised # None, caught |-> FALSE,
     post |-> r.self.headers, post_status |-> r.self._status]

WithCall(h, pre, st, response_headers, exc, r) ==
    [h EXCEPT !.calls = Append(@, CallOf(pre, st, response_headers, exc, r))]

\* the fragment of length n pulled with self as pre, and what send_headers
\* and the fragment loop made of it
FlushOf(pre, n, r, items) ==
    [len |-> n, before |-> pre._headers_sent # NotSent,
     after |-> r.self._headers_sent # NotSent,
     upgrade |-> HeadersHas(pre.headers, "Upgrade"),
     head |-> r.head # NotSent, items |-> items]

WithPolicy(h, pre, r) ==
    IF r.head # NotSent
    THEN [h EXCEPT !.policy = Append(@, PolicyOf(pre, r.self))]
    ELSE h

(* --------------------------- wsgi_environ ------------------------------ *)
\* Text read character by character is a sequence of one-character strings.
\* c in text
Contains(text, c) == \E i \in 1..Len(text) : text[i] = c

\* text.rsplit(c, 1)[1], for a text that contains c
AfterLast(text, c) ==
    LET i == CHOOSE k \in 1..Len(text) :
                 text[k] = c /\ \A j \in (k + 1)..Len(text) : text[j] # c
    IN  SubSeq(text, i + 1, Len(text))

RECURSIVE Strip(_)
\* text.strip()
Strip(text) ==
    IF text = <<>> THEN text
    ELSE IF text[1] = " " THEN Strip(Tail(text))
    ELSE IF text[Len(text)] = " " THEN Strip(SubSeq(text, 1, Len(text) - 1))
    ELSE text

RECURSIVE Split(_, _)
\* text.split(c)
Split(text, c) ==
    IF ~Contains(text, c) THEN <<text>>
    ELSE LET i == CHOOSE k \in 1..Len(text) :
                      text[k] = c /\ \A j \in 1..(k - 1) : text[j] # c
         IN  <<SubSeq(text, 1, i - 1)>>
                 \o Split(SubSeq(text, i + 1, Len(text)), c)

\* self.address: the address of the peer of the transport
PeerAddress == [host |-> <<"p">>, port |-> 5000]

RECURSIVE ForwardOf(_, _)
\* forward after the loop over the request headers: the value of the last
\* x-forwarded-for header, a string, else what it was
ForwardOf(forward, req) ==
    IF req = <<>> THEN forward
    ELSE IF Lower(req[1][1]) = "x-forwarded-for"
    THEN ForwardOf([is_string |-> TRUE, value |-> req[1][2]], Tail(req))
    ELSE ForwardOf(forward, Tail(req))

\* environ['REMOTE_ADDR'] and environ['REMOTE_PORT'] as wsgi_environ sets
\* them, for the request headers req and self.address
RemoteEnviron(req, address) ==
    LET forward == ForwardOf([is_string |-> FALSE, value |-> address], req)
    IN  IF forward.is_string
        THEN LET hop == IF Contains(forward.value, ",")
                        THEN Strip(AfterLast(forward.value, ","))
                        ELSE forward.value
                 split == Split(hop, ":")
                 remote == IF Len(split) < 2 THEN Append(split, <<"8", "0">>)
                           ELSE split
             IN  [REMOTE_ADDR |-> remote[1], REMOTE_PORT |-> remote[2]]
        ELSE [REMOTE_ADDR |-> forward.value.host,
              REMOTE_PORT |-> Dec(forward.value.port)]

RECURSIVE CopyHopHeaders(_, _)
\* for header, value in self._request_headers: hop headers are copied
CopyHopHeaders(h, req) ==
    IF req = <<>> THEN h
    ELSE LET header == Lower(req[1][1])
         IN  IF header \in HOP_HEADERS
             THEN CopyHopHeaders(HeadersSet(h, header, req[1][2]), Tail(req))
             ELSE CopyHopHeaders(h, Tail(req))

RECURSIVE HeadersUpdate(_, _)
\* Headers.update(pairs)
HeadersUpdate(h, pairs) ==
    IF pairs = <<>> THEN h
    ELSE HeadersUpdate(HeadersSet(h, pairs[1][1], pairs[1][2]), Tail(pairs))

Init ==
    /\ body = <<>>
    /\ parser = ParserDone
    /\ environ = None
    /\ mapper = MapperInit
    /\ mapper_ret = NoMapperCall
    /\ wsgi_callable = Application
    /\ routers = RoutersInit
    /\ router_ret = NoRouterCall
    /\ pc = "environ"
    /\ version \in Versions
    /\ request_headers \in RequestHeaderSets
    /\ headers = <<>>
    /\ keep_alive_ = FALSE
    /\ status = None
    /\ headers_sent = NotSent
    /\ exc_info = None
    /\ wsgi_iter = "None"
    /\ iterable = "None"
    /\ pulls = 0
    /\ pending = <<>>
    /\ wire = <<>>
    /\ closed = 0
    /\ conn_closed = 0
    /\ finished = 0
    /\ hist = HistInit

\* wsgi_environ(): the part that prepares the response headers
\* what wsgi_environ() leaves, for the request headers req
EnvironEffect(req) ==
    /\ environ' = RemoteEnviron(req, PeerAddress)
    /\ LET h1 == CopyHopHeaders(headers, req)
           ka == keep_alive(h1, version)
       IN  /\ keep_alive_' = ka.result
           /\ headers' = HeadersUpdate(ka.headers, ServerHeaders)
           /\ hist' = [hist EXCEPT !.conn_seen = ConnTokens(h1)]

WsgiEnviron ==
    /\ UNCHANGED <<parser, odm_vars, body,
                   wsgi_callable,
                   router_vars>>
    /\ pc = "environ"
    /\ EnvironEffect(request_headers)
    /\ pc' = "call"
    /\ UNCHANGED <<version, request_headers, status, headers_sent, exc_info,
                   wsgi_iter, iterable, pulls, pending, wire, closed,
                   conn_closed, finished>>

(* ------------------------------ generate ------------------------------- *)
\* self takes the fields of s
SetSelf(s) ==
    /\ headers' = s.headers
    /\ status' = s._status
    /\ headers_sent' = s._headers_sent
    /\ keep_alive_' = s.keep_alive

\* the test changed: headers already sent are not looked at
FatalIgnoresHeadersSent(s) == exc_info # None

\* the test changed: an earlier substitution is not looked at
FatalIgnoresExcInfo(s) == s._headers_sent # NotSent

\* if exc_info or self._headers_sent
Fatal(s) == exc_info # None \/ s._headers_sent # NotSent

\* the except clause changed: keep_alive is set to False for every
\* substitute, redirect or not
ExceptForcesClose(s, e, h) ==
    LET h1 == [h EXCEPT !.failures = Append(@, FailureOf(s, e))]
    IN  IF Fatal(s)
        THEN /\ SetSelf([s EXCEPT !.keep_alive = FALSE])
             /\ pc' = "close"
             /\ hist' = h1
             /\ UNCHANGED <<exc_info, iterable, pulls>>
        ELSE LET response == handle_wsgi_error(e)
                 s1 == [s EXCEPT !.keep_alive = FALSE]
                 r == start_response(s1, response.status, response.headers, e)
                 h2 == WithCall(h1, s1, response.status, response.headers, e, r)
             IN  /\ exc_info' = e
                 /\ SetSelf(r.self)
                 /\ iterable' = "subst"
                 /\ pulls' = 0
                 /\ pc' = "pull"
                 /\ hist' = [h2 EXCEPT !.passes = @ + 1]

\* the except clause of generate, for the exception e raised with self as s
\* and the history as h
Except(s, e, h) ==
    LET h1 == [h EXCEPT !.failures = Append(@, FailureOf(s, e))]
    IN  IF Fatal(s)
        THEN /\ SetSelf([s EXCEPT !.keep_alive = FALSE])
             /\ pc' = "close"
             /\ hist' = h1
             /\ UNCHANGED <<exc_info, iterable, pulls>>
        ELSE LET response == handle_wsgi_error(e)
                 s1 == IF response.status_code \notin REDIRECT_CODES
                       THEN [s EXCEPT !.keep_alive = FALSE]
                       ELSE s
                 r == start_response(s1, response.status, response.headers, e)
                 h2 == WithCall(h1, s1, response.status, response.headers, e, r)
             IN  /\ exc_info' = e
                 /\ SetSelf(r.self)
                 /\ iterable' = "subst"
                 /\ pulls' = 0
                 /\ pc' = "pull"
                 /\ hist' = [h2 EXCEPT !.passes = @ + 1]

\* the application's own calls of start_response before it returns, yields
\* or raises: call is NoCall, a member of AppStartCalls, SecondCall or
\* ErrorCall
AppStart(s, call) ==
    IF call = NoCall THEN [raised |-> None, self |-> s]
    ELSE start_response(s, call.status, call.headers, CallExc(call))

\* the history h after the application's call; caught tells whether the
\* application caught the error the call raised
WithAppCall(h, s, call, caught) ==
    IF call = NoCall THEN h
    ELSE LET w == WithCall(h, s, call.status, call.headers, CallExc(call),
                           AppStart(s, call))
         IN  [w EXCEPT !.recalls = IF s._status # None THEN @ + 1 ELSE @,
                       !.calls[Len(w.calls)].caught = caught]

\* wsgi_iter = self.wsgi_callable(environ, self.start_response)
GenerateCall ==
    /\ UNCHANGED <<parser, environ, odm_vars, body,
                   wsgi_callable,
                   router_vars>>
    /\ pc = "call"
    /\ UNCHANGED <<version, request_headers, pending, wire, closed,
                   conn_closed, finished>>
    /\ \E call \in {NoCall} \cup wsgi_callable.calls :
         LET r == AppStart(Self, call)
             h == [WithAppCall(hist, Self, call, FALSE)
                      EXCEPT !.app_calls = @ + 1, !.passes = 1]
         IN  \/ \E it \in wsgi_callable.iters :
                  /\ wsgi_iter' = it
                  /\ iterable' = "app"
                  /\ pulls' = 0
                  /\ SetSelf(r.self)
                  /\ pc' = "pull"
                  /\ hist' = h
                  /\ UNCHANGED exc_info
             \/ \E e \in wsgi_callable.errors :
                  /\ UNCHANGED wsgi_iter
                  /\ Except(r.self, e, h)

\* the calls of start_response the application may make when it is resumed
LazyCalls(s) ==
    IF iterable = "app"
    THEN IF s._status = None THEN {NoCall} \cup wsgi_callable.calls
         ELSE IF hist.recalls < MaxRecalls THEN {NoCall, SecondCall, ErrorCall}
         ELSE {NoCall}
    ELSE {NoCall}

\* the fragment lengths the current iterable may yield next
NextLens ==
    IF iterable = "app"
    THEN IF pulls < MaxFragments THEN wsgi_callable.lens ELSE {}
    ELSE IF pulls < MaxErrFragments THEN ErrFragLens ELSE {}

\* the errors the current iterable may raise when it is resumed
NextErrors ==
    IF iterable = "app" THEN wsgi_callable.errors ELSE {SubstituteFailure}

\* the loop pulls without waiting: items still to be yielded are no obstacle
ResumedAnytime == TRUE

\* the generator is suspended at each yield and runs on to the next pass of
\* the for loop only when every item of the pass before was taken from it
Resumed == pending = <<>>

\* for b in iterable: ... (one pass of the for loop), and the else clause
\* of the try when the iterable is exhausted
GeneratePull ==
    /\ UNCHANGED <<parser, environ, odm_vars, body,
                   wsgi_callable,
                   router_vars>>
    /\ pc = "pull"
    /\ Resumed
    /\ UNCHANGED <<version, request_headers, wsgi_iter, wire, closed,
                   conn_closed, finished>>
    /\ \E call \in LazyCalls(Self) :
         LET c == AppStart(Self, call)
             s == c.self
             h0 == WithAppCall(hist, Self, call, FALSE)
         IN  IF c.raised # None
             THEN /\ Except(s, c.raised, h0)
                  /\ UNCHANGED pending
             ELSE
             \/ \E n \in NextLens :
                  LET b == Bytes(iterable, pulls + 1, n)
                      r == send_headers(s, n > 0)
                      h == [h0 EXCEPT !.pulled = Append(@, <<iterable, n>>)]
                  IN  IF r.raised
                      THEN /\ Except(s, HttpExceptionDefault, h)
                           /\ UNCHANGED pending
                      ELSE /\ SetSelf(r.self)
                           /\ pending' = HeadItems(r.head) \o BodyItems(r.self, b)
                           /\ pulls' = pulls + 1
                           /\ hist' = [WithPolicy(h, s, r) EXCEPT
                                         !.flushes = Append(@,
                                             FlushOf(s, n, r, BodyItems(r.self, b)))]
                           /\ UNCHANGED <<pc, exc_info, iterable>>
             \/ \E e \in NextErrors :
                  /\ Except(s, e, h0)
                  /\ UNCHANGED pending
             \/ LET r == send_headers(s, TRUE)
                IN  IF r.raised
                    THEN /\ SetSelf(s)
                         /\ pc' = "raised"
                         /\ hist' = [h0 EXCEPT !.exhausted = TRUE]
                         /\ UNCHANGED <<pending, pulls, exc_info, iterable>>
                    ELSE /\ SetSelf(r.self)
                         /\ pending' = HeadItems(r.head) \o LastItems(r.self)
                         /\ pc' = "close"
                         /\ hist' = [WithPolicy(h0, s, r) EXCEPT !.exhausted = TRUE]
                         /\ UNCHANGED <<pulls, exc_info, iterable>>

\* yield: the next item is handed to transport.writelines
GenerateYield ==
    /\ UNCHANGED <<parser, environ, odm_vars, body,
                   wsgi_callable,
                   router_vars>>
    /\ pending # <<>>
    /\ wire' = Append(wire, Head(pending))
    /\ pending' = Tail(pending)
    /\ UNCHANGED <<pc, version, request_headers, headers, keep_alive_, status,
                   headers_sent, exc_info, wsgi_iter, iterable, pulls, closed,
                   conn_closed, finished, hist>>

\* if hasattr(wsgi_iter, 'close'): wsgi_iter.close()
GenerateClose ==
    /\ UNCHANGED <<parser, environ, odm_vars, body,
                   wsgi_callable,
                   router_vars>>
    /\ pc = "close"
    /\ pending = <<>>
    /\ closed' = IF wsgi_iter = "closeable" THEN closed + 1 ELSE closed
    /\ pc' = "conn"
    /\ UNCHANGED <<version, request_headers, headers, keep_alive_, status,
                   headers_sent, exc_info, wsgi_iter, iterable, pulls, pending,
                   wire, conn_closed, finished, hist>>

\* if not self.keep_alive: self.connection.close()
GenerateConnClose ==
    /\ UNCHANGED <<parser, environ, odm_vars, body,
                   wsgi_callable,
                   router_vars>>
    /\ pc = "conn"
    /\ conn_closed' = IF ~keep_alive_ THEN conn_closed + 1 ELSE conn_closed
    /\ pc' = "finish"
    /\ UNCHANGED <<version, request_headers, headers, keep_alive_, status,
                   headers_sent, exc_info, wsgi_iter, iterable, pulls, pending,
                   wire, closed, finished, hist>>

\* self.finished()
GenerateFinished ==
    /\ UNCHANGED <<parser, environ, odm_vars, body,
                   wsgi_callable,
                   router_vars>>
    /\ pc = "finish"
    /\ finished' = finished + 1
    /\ pc' = "done"
    /\ UNCHANGED <<version, request_headers, headers, keep_alive_, status,
                   headers_sent, exc_info, wsgi_iter, iterable, pulls, pending,
                   wire, closed, conn_closed, hist>>

Next ==
    \/ WsgiEnviron
    \/ GenerateCall
    \/ GeneratePull
    \/ GenerateYield
    \/ GenerateClose
    \/ GenerateConnClose
    \/ GenerateFinished

Spec == Init /\ [][Next]_vars

(* ---- the cycle with an application that uses the write callable and
        catches the errors of start_response, and a transport that stops
        taking the response ---- *)
\* the HTTP versions of the requests
AppVersions == {<<1, 0>>, <<1, 1>>}

\* the headers of the requests
AppRequestHeaderSets ==
    { <<>>, <<<<"Connection", "Upgrade">>, <<"Upgrade", "websocket">>>> }

\* the lengths of the data the application passes to write
WriteLens == {0, 5}

\* the applications that use write or catch: they call start_response with
\* 200 and a Content-Type
WritingApplication ==
    [calls |-> {[status |-> Status(200),
                 headers |-> <<<<"Content-Type", "text/plain">>>>]},
     iters |-> {"iter", "closeable"},
     lens |-> {0, 5}, errors |-> {<<"ValueError", 0>>}]

\* write(data), after head = self.send_headers(force=data): the header
\* block, when there is one, and the data, when not empty, go to
\* transport.write as they are
write(head, data) ==
    HeadItems(head) \o (IF data.len > 0 THEN <<RawItem(data)>> ELSE <<>>)

InitApp ==
    /\ body = <<>>
    /\ parser = ParserDone
    /\ environ = None
    /\ mapper = MapperInit
    /\ mapper_ret = NoMapperCall
    /\ wsgi_callable = WritingApplication
    /\ routers = RoutersInit
    /\ router_ret = NoRouterCall
    /\ pc = "environ"
    /\ version \in AppVersions
    /\ request_headers \in AppRequestHeaderSets
    /\ headers = <<>>
    /\ keep_alive_ = FALSE
    /\ status = None
    /\ headers_sent = NotSent
    /\ exc_info = None
    /\ wsgi_iter = "None"
    /\ iterable = "None"
    /\ pulls = 0
    /\ pending = <<>>
    /\ wire = <<>>
    /\ closed = 0
    /\ conn_closed = 0
    /\ finished = 0
    /\ hist = HistInit

\* the application, running after start_response gave it the write
\* callable, calls write(data)
AppWrite ==
    /\ UNCHANGED <<parser, environ, odm_vars, body,
                   wsgi_callable,
                   router_vars>>
    /\ pc = "pull"
    /\ Resumed
    /\ iterable = "app"
    /\ status # None
    /\ Len(hist.writes) < MaxWrites
    /\ \E n \in WriteLens :
         LET r == send_headers(Self, n > 0)
         IN  /\ ~r.raised
             /\ SetSelf(r.self)
             /\ wire' = wire \o write(r.head,
                                      Bytes("write", Len(hist.writes) + 1, n))
             /\ hist' = [WithPolicy(hist, Self, r) EXCEPT
                           !.writes = Append(@, n)]
    /\ UNCHANGED <<pc, version, request_headers, exc_info, wsgi_iter, iterable,
                   pulls, pending, closed, conn_closed, finished>>

\* the application calls start_response again, the call raises (lines 148
\* to 160) and the application catches the error and goes on
AppCaught ==
    /\ UNCHANGED <<parser, environ, odm_vars, body,
                   wsgi_callable,
                   router_vars>>
    /\ pc = "pull"
    /\ Resumed
    /\ iterable = "app"
    /\ status # None
    /\ hist.recalls < MaxRecalls
    /\ \E call \in {SecondCall, ErrorCall} :
         /\ AppStart(Self, call).raised # None
         /\ hist' = WithAppCall(hist, Self, call, TRUE)
    /\ UNCHANGED <<pc, version, request_headers, headers, keep_alive_, status,
                   headers_sent, exc_info, wsgi_iter, iterable, pulls, pending,
                   wire, closed, conn_closed, finished>>

\* yield, where the generator is closed instead of resumed: the item was
\* taken, GeneratorExit is raised at the yield, no except clause of
\* generate matches it and the statements after the loop are not reached
GenerateCancel ==
    /\ UNCHANGED <<parser, environ, odm_vars, body,
                   wsgi_callable,
                   router_vars>>
    /\ pc \in {"pull", "close"}
    /\ pending # <<>>
    /\ wire' = Append(wire, Head(pending))
    /\ pending' = <<>>
    /\ pc' = "cancelled"
    /\ UNCHANGED <<version, request_headers, headers, keep_alive_, status,
                   headers_sent, exc_info, wsgi_iter, iterable, pulls, closed,
                   conn_closed, finished, hist>>

NextApp ==
    \/ Next
    \/ AppWrite
    \/ AppCaught
    \/ GenerateCancel

SpecApp == InitApp /\ [][NextApp]_vars

(* ------------------------ chunked body on its own ---------------------- *)
\* the lengths of the fragments encoded
ChunkFragLens == {0, 1, MAX_CHUNK_SIZE - 1, MAX_CHUNK_SIZE,
                  MAX_CHUNK_SIZE + 1, 2 * MAX_CHUNK_SIZE}

\* the body sequences encoded: fragment i is the i-th of the sequence
ChunkBodies ==
    UNION {{[i \in 1..n |-> Bytes("app", i, lens[i])] :
               lens \in [1..n -> ChunkFragLens]} :
           n \in 0..MaxChunkFragments}

\* a response for which chunked was chosen
ChunkedHeaders == <<<<"Transfer-Encoding", "chunked">>>>

InitChunk ==
    /\ pc = "encode"
    /\ body \in ChunkBodies
    /\ version = <<1, 1>>
    /\ request_headers = <<>>
    /\ headers = ChunkedHeaders
    /\ keep_alive_ = FALSE
    /\ status = Status(200)
    /\ headers_sent = HeadersFlat(ChunkedHeaders, <<1, 1>>, Status(200))
    /\ exc_info = None
    /\ wsgi_iter = "iter"
    /\ iterable = "app"
    /\ pulls = 0
    /\ pending = <<>>
    /\ wire = <<>>
    /\ closed = 0
    /\ conn_closed = 0
    /\ finished = 0
    /\ hist = HistInit
    /\ parser = ParserDone
    /\ environ = None
    /\ mapper = MapperInit
    /\ mapper_ret = NoMapperCall
    /\ wsgi_callable = Application
    /\ routers = RoutersInit
    /\ router_ret = NoRouterCall

\* the fragment loop of generate for the next fragment of the body, the
\* header block being sent
EncodeFragment ==
    /\ pc = "encode"
    /\ body # <<>>
    /\ wire' = wire \o BodyItems(Self, Head(body))
    /\ body' = Tail(body)
    /\ pulls' = pulls + 1
    /\ hist' = [hist EXCEPT !.pulled = Append(@, <<"app", Head(body).len>>)]
    /\ UNCHANGED <<pc, version, request_headers, headers, keep_alive_, status,
                   headers_sent, exc_info, wsgi_iter, iterable, pending,
                   closed, conn_closed, finished, parser, environ, odm_vars,
                   wsgi_callable,
                   router_vars>>

\* the else clause of generate once the body is exhausted
EncodeLast ==
    /\ pc = "encode"
    /\ body = <<>>
    /\ wire' = wire \o LastItems(Self)
    /\ pc' = "encoded"
    /\ UNCHANGED <<version, request_headers, headers, keep_alive_, status,
                   headers_sent, exc_info, wsgi_iter, iterable, pulls, pending,
                   closed, conn_closed, finished, hist, parser, environ,
                   odm_vars, body,
                   wsgi_callable,
                   router_vars>>

NextChunk == EncodeFragment \/ EncodeLast

SpecChunk == InitChunk /\ [][NextChunk]_vars

(* ---------------------------- data_received ---------------------------- *)
\* Headers.has(field, value): the field has this value
HeadersHasValue(h, name, value) ==
    \E i \in 1..Len(h) : Lower(h[i][1]) = Lower(name) /\ h[i][2] = value

\* b'HTTP/1.1 100 Continue\r\n\r\n'
ContinueItem == [kind |-> "continue", version |-> <<1, 1>>, status |-> 100]

\* expect_continue changed: the 100 Continue is written whatever the
\* request headers
expect_continue_always(req, transport) == Append(transport, ContinueItem)

\* expect_continue(): what has been written to the transport after it, for
\* the request headers req
expect_continue(req, transport) ==
    IF HeadersHasValue(req, "expect", "100-continue")
    THEN Append(transport, ContinueItem)
    ELSE transport

\* the header sets of the requests received
ReceiveHeaderSets ==
    {<<>>,
     <<<<"Expect", "100-continue">>>>,
     <<<<"Connection", "Close">>, <<"Expect", "100-continue">>>>}

\* the requests received: their headers and whether a body follows them
Messages == [headers : ReceiveHeaderSets, body : BOOLEAN]

\* what the parser may have parsed after it was fed more of the message m:
\* it does not go back, the headers end before the message does, and a
\* message without body ends with its headers
ParserSteps(p, m) ==
    {q \in [headers_complete : BOOLEAN, message_complete : BOOLEAN] :
        /\ p.headers_complete => q.headers_complete
        /\ q.message_complete => q.headers_complete
        /\ (q.headers_complete /\ ~m.body) => q.message_complete}

InitReceive ==
    /\ body = <<>>
    /\ pc = "receive"
    /\ version \in {<<1, 0>>, <<1, 1>>}
    /\ request_headers = <<>>
    /\ parser \in {[fed |-> 0, headers_complete |-> FALSE,
                     message_complete |-> FALSE, has_headers |-> FALSE,
                     with_headers |-> FALSE, expect_calls |-> 0,
                     message |-> m] : m \in Messages}
    /\ headers = <<>>
    /\ keep_alive_ = FALSE
    /\ status = None
    /\ headers_sent = NotSent
    /\ exc_info = None
    /\ wsgi_iter = "None"
    /\ iterable = "None"
    /\ pulls = 0
    /\ pending = <<>>
    /\ wire = <<>>
    /\ closed = 0
    /\ conn_closed = 0
    /\ finished = 0
    /\ hist = HistInit
    /\ environ = None
    /\ mapper = MapperInit
    /\ mapper_ret = NoMapperCall
    /\ wsgi_callable = Application
    /\ routers = RoutersInit
    /\ router_ret = NoRouterCall

\* data_received(data): the parser rejects the data and ProtocolError is
\* raised, or it parses more of the message; when the headers are complete
\* for the first time they are kept and, the message not being complete,
\* expect_continue is called; when the message is complete the environ is
\* built and generate is handed to transport.writelines
DataReceived ==
    /\ pc = "receive"
    /\ parser.fed < MaxReceives
    /\ UNCHANGED <<version, status, headers_sent, exc_info, wsgi_iter,
                   iterable, pulls, pending, closed, conn_closed, finished,
                   odm_vars, body,
                   wsgi_callable,
                   router_vars>>
    /\ \/ /\ pc' = "ProtocolError"
          /\ parser' = [parser EXCEPT !.fed = @ + 1]
          /\ UNCHANGED <<request_headers, headers, keep_alive_, wire, hist,
                         environ>>
       \/ \E q \in ParserSteps(parser, parser.message) :
            LET done == q.message_complete
                first == ~parser.has_headers /\ q.headers_complete
                req == IF first THEN parser.message.headers
                       ELSE request_headers
            IN  /\ parser' = [parser EXCEPT
                                !.fed = @ + 1,
                                !.headers_complete = q.headers_complete,
                                !.message_complete = q.message_complete,
                                !.has_headers = @ \/ first,
                                !.with_headers = IF first THEN done ELSE @]
                /\ request_headers' = req
                /\ wire' = IF first /\ ~done
                           THEN expect_continue(req, wire)
                           ELSE wire
                /\ IF done
                   THEN /\ EnvironEffect(req)
                        /\ pc' = "call"
                   ELSE UNCHANGED <<pc, headers, keep_alive_, hist, environ>>

\* expect_continue() called from outside data_received, once the request
\* headers are there
ExpectContinueCall ==
    /\ pc = "receive"
    /\ parser.has_headers
    /\ parser.expect_calls < MaxExpectCalls
    /\ parser' = [parser EXCEPT !.expect_calls = @ + 1]
    /\ wire' = expect_continue(request_headers, wire)
    /\ UNCHANGED <<pc, version, request_headers, headers, keep_alive_, status,
                   headers_sent, exc_info, wsgi_iter, iterable, pulls, pending,
                   closed, conn_closed, finished, hist, environ, odm_vars, body,
                   wsgi_callable,
                   router_vars>>

NextReceive == DataReceived \/ ExpectContinueCall

SpecReceive == InitReceive /\ [][NextReceive]_vars

(* ----------------------- wsgi_environ on its own ----------------------- *)
\* the characters of X-Forwarded-For values
ForwardChars == {"a", "8", ",", ":", " "}

\* X-Forwarded-For values of up to MaxForwardLen characters
ForwardValues == UNION {[1..n -> ForwardChars] : n \in 0..MaxForwardLen}

\* requests with and without an X-Forwarded-For header
ForwardHeaderSets ==
    {<<>>} \cup {<<<<"X-Forwarded-For", v>>>> : v \in ForwardValues}

InitRemote ==
    /\ body = <<>>
    /\ pc = "environ"
    /\ version = <<1, 1>>
    /\ request_headers \in ForwardHeaderSets
    /\ headers = <<>>
    /\ keep_alive_ = FALSE
    /\ status = None
    /\ headers_sent = NotSent
    /\ exc_info = None
    /\ wsgi_iter = "None"
    /\ iterable = "None"
    /\ pulls = 0
    /\ pending = <<>>
    /\ wire = <<>>
    /\ closed = 0
    /\ conn_closed = 0
    /\ finished = 0
    /\ hist = HistInit
    /\ parser = ParserDone
    /\ environ = None
    /\ mapper = MapperInit
    /\ mapper_ret = NoMapperCall
    /\ wsgi_callable = Application
    /\ routers = RoutersInit
    /\ router_ret = NoRouterCall

NextRemote == WsgiEnviron

SpecRemote == InitRemote /\ [][NextRemote]_vars

(* -------------------- keep_alive applied on its own --------------------- *)
\* the versions keep_alive is applied to
KeepAliveVersions == {<<0, 9>>, <<1, 0>>, <<1, 1>>, <<1, 2>>, <<2, 0>>}

\* the values of the Connection headers
ConnValues == {"close", "Close", "upgrade", "Upgrade", "keep-alive",
               "Keep-Alive", "TE"}

\* header sets holding up to MaxConnValues Connection headers
ConnHeaderSets ==
    UNION {[1..n -> {<<"connection", v>> : v \in ConnValues}] :
               n \in 0..MaxConnValues}

InitKeepAlive ==
    /\ body = <<>>
    /\ parser = ParserDone
    /\ environ = None
    /\ mapper = MapperInit
    /\ mapper_ret = NoMapperCall
    /\ wsgi_callable = Application
    /\ routers = RoutersInit
    /\ router_ret = NoRouterCall
    /\ pc = "keep_alive"
    /\ version \in KeepAliveVersions
    /\ headers \in ConnHeaderSets
    /\ request_headers = <<>>
    /\ keep_alive_ = FALSE
    /\ status = None
    /\ headers_sent = NotSent
    /\ exc_info = None
    /\ wsgi_iter = "None"
    /\ iterable = "None"
    /\ pulls = 0
    /\ pending = <<>>
    /\ wire = <<>>
    /\ closed = 0
    /\ conn_closed = 0
    /\ finished = 0
    /\ hist = HistInit

\* self.keep_alive = keep_alive(self.headers, p.get_version())
KeepAliveCall ==
    /\ UNCHANGED <<parser, environ, odm_vars, body,
                   wsgi_callable,
                   router_vars>>
    /\ pc = "keep_alive"
    /\ LET ka == keep_alive(headers, version)
       IN  /\ keep_alive_' = ka.result
           /\ headers' = ka.headers
    /\ hist' = [hist EXCEPT !.conn_seen = ConnTokens(headers)]
    /\ pc' = "kept"
    /\ UNCHANGED <<version, request_headers, status, headers_sent, exc_info,
                   wsgi_iter, iterable, pulls, pending, wire, closed,
                   conn_closed, finished>>

NextKeepAlive == KeepAliveCall

SpecKeepAlive == InitKeepAlive /\ [][NextKeepAlive]_vars

(* ------------------------------- Mapper -------------------------------- *)
\* the models: A1 and A2 have the same _meta.name in different applications,
\* A1 has a foreign key to B and B one to A1
Models == {"A1", "A2", "B"}

\* model._meta.name
MetaName(model) == IF model = "B" THEN "b" ELSE "a"

\* the tables of the foreign keys of the model's fields
ForeignTables(model) ==
    IF model = "A1" THEN <<"B">>
    ELSE IF model = "B" THEN <<"A1">>
    ELSE <<>>

RECURSIVE models_from_model(_, _, _)
RECURSIVE ModelsFromTables(_, _, _)
\* models_from_model(model, include_related, exclude): the models yielded
\* and the exclude set it leaves
models_from_model(model, include_related, exclude) ==
    IF model \in exclude THEN [out |-> <<>>, exclude |-> exclude]
    ELSE IF ~include_related
    THEN [out |-> <<model>>, exclude |-> exclude \cup {model}]
    ELSE LET r == ModelsFromTables(ForeignTables(model), include_related,
                                   exclude \cup {model})
         IN  [out |-> <<model>> \o r.out, exclude |-> r.exclude]

\* the loop of models_from_model over the foreign keys
ModelsFromTables(tables, include_related, exclude) ==
    IF tables = <<>> THEN [out |-> <<>>, exclude |-> exclude]
    ELSE LET r1 == models_from_model(tables[1], include_related, exclude)
             r2 == ModelsFromTables(Tail(tables), include_related, r1.exclude)
         IN  [out |-> r1.out \o r2.out, exclude |-> r2.exclude]

\* the body of register's loop changed: a registered model is registered
\* again with a new manager
RegisterModelAgain(st, model) ==
    LET manager == [id |-> st.self.created + 1, model |-> model]
        name == MetaName(model)
    IN  [self |->
           [_registered_models |->
                (model :> manager) @@ st.self._registered_models,
            _registered_names |->
                IF name \notin DOMAIN st.self._registered_names
                THEN (name :> manager) @@ st.self._registered_names
                ELSE st.self._registered_names,
            created |-> st.self.created + 1],
         registered |-> Append(st.registered, model)]

\* the body of register's loop for one model: st holds the Mapper and the
\* list registered
RegisterModel(st, model) ==
    IF model \in DOMAIN st.self._registered_models THEN st
    ELSE LET manager == [id |-> st.self.created + 1, model |-> model]
             name == MetaName(model)
         IN  [self |->
                [_registered_models |->
                     (model :> manager) @@ st.self._registered_models,
                 _registered_names |->
                     IF name \notin DOMAIN st.self._registered_names
                     THEN (name :> manager) @@ st.self._registered_names
                     ELSE st.self._registered_names,
                 created |-> st.self.created + 1],
              registered |-> Append(st.registered, model)]

RECURSIVE RegisterModels(_, _)
\* register's inner loop over the models of one argument
RegisterModels(st, models) ==
    IF models = <<>> THEN st
    ELSE RegisterModels(RegisterModel(st, models[1]), Tail(models))

RECURSIVE RegisterArgs(_, _, _)
\* register's outer loop over its arguments
RegisterArgs(st, models, include_related) ==
    IF models = <<>> THEN st
    ELSE RegisterArgs(
             RegisterModels(st, models_from_model(models[1], include_related,
                                                  {}).out),
             Tail(models), include_related)

\* register(*models, include_related): the Mapper it leaves and what it
\* returns: registered[0] if len(registered) == 1 else registered
register(self, models, include_related) ==
    LET st == RegisterArgs([self |-> self, registered |-> <<>>], models,
                           include_related)
    IN  [self |-> st.self,
         ret |-> IF Len(st.registered) = 1
                 THEN [kind |-> "model", value |-> st.registered[1]]
                 ELSE [kind |-> "list", value |-> st.registered]]

\* dict without the key k
DictPop(d, k) == [x \in DOMAIN d \ {k} |-> d[x]]

RECURSIVE ManagersById(_)
\* the managers of a set in the order they were created
ManagersById(ms) ==
    IF ms = {} THEN <<>>
    ELSE LET m == CHOOSE x \in ms : \A y \in ms : x.id <= y.id
         IN  <<m>> \o ManagersById(ms \ {m})

\* unregister(model=None): the Mapper it leaves and what it returns; the
\* model None is written "None"
unregister(self, model) ==
    IF model # "None"
    THEN IF model \notin DOMAIN self._registered_models
         THEN [self |-> self, ret |-> [kind |-> "None", value |-> <<>>]]
         ELSE LET manager == self._registered_models[model]
                  name == MetaName(manager.model)
                  names == self._registered_names
              IN  [self |->
                     [self EXCEPT
                        !._registered_models = DictPop(@, model),
                        !._registered_names =
                            IF name \in DOMAIN names /\ names[name] = manager
                            THEN DictPop(@, name) ELSE @],
                   ret |-> [kind |-> "list", value |-> <<manager>>]]
    ELSE [self |-> [self EXCEPT !._registered_models = EmptyDict],
          ret |-> [kind |-> "list",
                   value |-> ManagersById(
                       {self._registered_models[m] :
                           m \in DOMAIN self._registered_models})]]

\* no manager: __getattr__ raises AttributeError
NoManager == [id |-> 0, model |-> "None"]

\* Mapper.__getattr__(name): the manager, or NoManager for AttributeError
MapperGetAttr(self, name) ==
    IF name \in DOMAIN self._registered_names
    THEN self._registered_names[name] ELSE NoManager

\* the argument lists of the calls of register
RegisterArgLists ==
    {<<m>> : m \in Models} \cup {<<"A1", "A1">>, <<"A1", "A2">>, <<"B", "A2">>}

InitMapper ==
    /\ body = <<>>
    /\ pc = "mapper"
    /\ mapper = MapperInit
    /\ mapper_ret = [op |-> "None", calls |-> 0]
    /\ wsgi_callable = Application
    /\ routers = RoutersInit
    /\ router_ret = NoRouterCall
    /\ version = <<1, 1>>
    /\ request_headers = <<>>
    /\ headers = <<>>
    /\ keep_alive_ = FALSE
    /\ status = None
    /\ headers_sent = NotSent
    /\ exc_info = None
    /\ wsgi_iter = "None"
    /\ iterable = "None"
    /\ pulls = 0
    /\ pending = <<>>
    /\ wire = <<>>
    /\ closed = 0
    /\ conn_closed = 0
    /\ finished = 0
    /\ hist = HistInit
    /\ parser = ParserDone
    /\ environ = None

\* what the Mapper does not touch
NotMapper ==
    <<pc, version, request_headers, headers, keep_alive_, status,
      headers_sent, exc_info, wsgi_iter, iterable, pulls, pending, wire,
      closed, conn_closed, finished, hist, parser, environ, body,
      wsgi_callable,
                   router_vars>>

\* a call of register
MapperRegister ==
    /\ pc = "mapper"
    /\ mapper_ret.calls < MaxMapperCalls
    /\ \E models \in RegisterArgLists, include_related \in BOOLEAN :
         LET r == register(mapper, models, include_related)
         IN  /\ mapper' = r.self
             /\ mapper_ret' = [op |-> "register", models |-> models,
                               include_related |-> include_related,
                               ret |-> r.ret,
                               calls |-> mapper_ret.calls + 1]
    /\ UNCHANGED NotMapper

\* a call of unregister
MapperUnregister ==
    /\ pc = "mapper"
    /\ mapper_ret.calls < MaxMapperCalls
    /\ \E model \in Models \cup {"None"} :
         LET r == unregister(mapper, model)
         IN  /\ mapper' = r.self
             /\ mapper_ret' = [op |-> "unregister", model |-> model,
                               ret |-> r.ret,
                               calls |-> mapper_ret.calls + 1]
    /\ UNCHANGED NotMapper

NextMapper == MapperRegister \/ MapperUnregister

SpecMapper == InitMapper /\ [][NextMapper]_vars

(* ------------------------------- Router -------------------------------- *)
\* the attributes a Router instance has
RouterAttributes == {"route", "routes", "_parent", "parameters"}

\* the elements of the list q
Elements(q) == {q[i] : i \in 1..Len(q)}

\* list.remove(x): the first element equal to x is taken out
ListRemove(q, x) ==
    LET i == CHOOSE k \in 1..Len(q) :
                 q[k] = x /\ \A m \in 1..(k - 1) : q[m] # x
    IN  SubSeq(q, 1, i - 1) \o SubSeq(q, i + 1, Len(q))

\* dict.update(e): the keys of e are set to e's values
DictUpdate(d, e) == e @@ d

\* the children of self whose route equals that of router, in the order of
\* self.routes
EqualRoutes(rs, self, router) ==
    SelectSeq(rs[self].routes, LAMBDA r : rs[r].route = rs[router].route)

\* remove_child(router)
remove_child(rs, self, router) ==
    IF router \in Elements(rs[self].routes)
    THEN [rs EXCEPT ![self].routes = ListRemove(@, router),
                    ![router]._parent = "None"]
    ELSE rs

\* add_child(router): raised is the error that leaves it, ret what it returns
add_child(rs, self, router) ==
    IF router = self
    THEN [raised |-> "AssertionError", ret |-> "None", routers |-> rs]
    ELSE IF EqualRoutes(rs, self, router) # <<>>
    THEN LET r == EqualRoutes(rs, self, router)[1]
         IN  IF "paramaters" \in RouterAttributes
             THEN [raised |-> "None", ret |-> r,
                   routers |-> [rs EXCEPT ![r].parameters =
                                   DictUpdate(@, rs[router].parameters)]]
             ELSE [raised |-> "AttributeError", ret |-> "None", routers |-> rs]
    ELSE LET rs1 == IF rs[router]._parent # "None"
                    THEN remove_child(rs, rs[router]._parent, router)
                    ELSE rs
         IN  [raised |-> "None", ret |-> router,
              routers |-> [rs1 EXCEPT ![router]._parent = self,
                                      ![self].routes = Append(@, router)]]

InitRouter ==
    /\ body = <<>>
    /\ pc = "router"
    /\ mapper = MapperInit
    /\ mapper_ret = NoMapperCall
    /\ wsgi_callable = Application
    /\ routers = RoutersInit
    /\ router_ret = NoRouterCall
    /\ version = <<1, 1>>
    /\ request_headers = <<>>
    /\ headers = <<>>
    /\ keep_alive_ = FALSE
    /\ status = None
    /\ headers_sent = NotSent
    /\ exc_info = None
    /\ wsgi_iter = "None"
    /\ iterable = "None"
    /\ pulls = 0
    /\ pending = <<>>
    /\ wire = <<>>
    /\ closed = 0
    /\ conn_closed = 0
    /\ finished = 0
    /\ hist = HistInit
    /\ parser = ParserDone
    /\ environ = None

\* what the Routers do not touch
NotRouter ==
    <<pc, version, request_headers, headers, keep_alive_, status,
      headers_sent, exc_info, wsgi_iter, iterable, pulls, pending, wire,
      closed, conn_closed, finished, hist, parser, environ, body,
      wsgi_callable, odm_vars>>

\* a call self.add_child(router)
RouterAddChild ==
    /\ pc = "router"
    /\ router_ret.calls < MaxRouterCalls
    /\ \E self \in Routers, router \in Routers :
         LET r == add_child(routers, self, router)
         IN  /\ routers' = r.routers
             /\ router_ret' = [op |-> "add_child", self |-> self,
                               router |-> router, raised |-> r.raised,
                               ret |-> r.ret, calls |-> router_ret.calls + 1]
    /\ UNCHANGED NotRouter

\* a call self.remove_child(router)
RouterRemoveChild ==
    /\ pc = "router"
    /\ router_ret.calls < MaxRouterCalls
    /\ \E self \in Routers, router \in Routers :
         /\ routers' = remove_child(routers, self, router)
         /\ router_ret' = [op |-> "remove_child", self |-> self,
                           router |-> router, raised |-> "None",
                           ret |-> "None", calls |-> router_ret.calls + 1]
    /\ UNCHANGED NotRouter

NextRouter == RouterAddChild \/ RouterRemoveChild

SpecRouter == InitRouter /\ [][NextRouter]_vars

(* ============================ properties ============================== *)
\* everything generate has yielded or is about to yield, in order
Produced == wire \o pending

IsHead(x) == x.kind = "head"

IsBody(x) == x.kind # "head"

\* the heads among the items of q
HeadsOf(q) == SelectSeq(q, IsHead)

\* the number of body bytes an item carries
ByteLen(x) == IF IsHead(x) THEN 0 ELSE x.data.len

RECURSIVE SumBytes(_)
SumBytes(q) == IF q = <<>> THEN 0 ELSE ByteLen(q[1]) + SumBytes(Tail(q))

RECURSIVE SumPulled(_, _)
\* the bytes of the fragments pulled from the body sequence src
SumPulled(p, src) ==
    IF p = <<>> THEN 0
    ELSE (IF p[1][1] = src THEN p[1][2] ELSE 0) + SumPulled(Tail(p), src)

\* the cycle is over: generate returned or an exception left it
Ended == pc \in {"done", "raised"}

\* generate is past its loop
PastLoop == pc \in {"close", "conn", "finish", "done"}

\* the first exception generate caught was raised before the header block
\* was sent: the failure is replaced by a substitute response
Substituted == hist.failures # <<>> /\ ~hist.failures[1].sent

\* the status code of the substitute for the error e: that of an
\* HttpException, 500 for every other error
ErrorCode(e) == IF e[1] = "HttpException" THEN e[2] ELSE 500

\* the size a chunk frame announces: its hexadecimal head read back
RECURSIVE FromHex(_)
FromHex(d) ==
    IF d = <<>> THEN 0
    ELSE 16 * FromHex(SubSeq(d, 1, Len(d) - 1))
           + ((CHOOSE i \in 1..16 : HexDigits[i] = d[Len(d)]) - 1)

\* a chunk frame announcing size zero
IsZeroChunk(x) == x.kind = "chunk" /\ FromHex(x.head) = 0

\* C1: when the application fails while the header block has not been sent
\* (also after empty fragments), generate produces no body byte of the
\* failed application; the only header block it produces carries the status
\* derived from the error; and when the substitute is generated to its end
\* the output is that one header block followed by exactly the substitute's
\* body bytes.
C1_SubstituteResponse ==
    Substituted =>
        LET e == hist.failures[1].exc
            heads == HeadsOf(Produced)
        IN  /\ \A i \in 1..Len(Produced) :
                    IsBody(Produced[i]) => Produced[i].data.src # "app"
            /\ Len(heads) <= 1
            /\ \A i \in 1..Len(heads) : StatusCode(heads[i].status) = ErrorCode(e)
            /\ SumBytes(Produced) = SumPulled(hist.pulled, "subst")
            /\ (pc = "done" /\ Len(hist.failures) = 1) =>
                   /\ Len(heads) = 1
                   /\ \A i \in 1..Len(wire) :
                          ByteLen(wire[i]) > 0 =>
                              \E j \in 1..(i - 1) : IsHead(wire[j])

\* C1 witness: a cycle completed by a redirect substitute with a body, after
\* the application yielded an empty fragment and then failed
C1_Witness ==
    /\ pc = "done"
    /\ Substituted
    /\ Len(hist.failures) = 1
    /\ hist.pulled # <<>> /\ hist.pulled[1] = <<"app", 0>>
    /\ SumBytes(wire) > 0
    /\ hist.failures[1].exc = <<"HttpException", 302>>

\* C2: when a failure happens after the header block was produced, nothing
\* more is produced (no error response, no terminating chunk), keep_alive is
\* false and the connection is closed at the end of the cycle.
C2_FatalAfterHeaders ==
    \A i \in 1..Len(hist.failures) :
        hist.failures[i].sent =>
            /\ Len(wire) = hist.failures[i].wire
            /\ pending = <<>>
            /\ ~keep_alive_
            /\ PastLoop
            /\ (pc \in {"finish", "done"} => conn_closed = 1)
            /\ (Ended => pc = "done")

\* C2 witness: a finished cycle whose application failed after its header
\* block and a chunked fragment were produced
C2_Witness ==
    /\ pc = "done"
    /\ hist.failures # <<>> /\ hist.failures[1].sent
    /\ \E i \in 1..Len(wire) : wire[i].kind = "chunk"
    /\ conn_closed = 1

\* C3: the application callable is invoked exactly once; at most one
\* substitution happens; a failure while the substitute is generated ends
\* the cycle as fatal (keep_alive false, no second substitute) even when no
\* header block was sent; generate's loop makes at most two passes.
C3_SingleSubstitution ==
    /\ hist.app_calls <= 1
    /\ (pc \notin {"environ", "call"} => hist.app_calls = 1)
    /\ hist.passes <= 2
    /\ Len(hist.failures) <= 2
    /\ hist.passes = (IF Substituted THEN 2 ELSE IF hist.app_calls = 1 THEN 1 ELSE 0)
    /\ Len(hist.failures) = 2 =>
           /\ hist.failures[2].second
           /\ iterable = "subst"
           /\ ~keep_alive_
           /\ PastLoop
           /\ pending = <<>>
           /\ Len(wire) = hist.failures[2].wire

\* C3 witness: the substitute failed before any header block was sent, and
\* the cycle ended
C3_Witness ==
    /\ pc = "done"
    /\ Len(hist.failures) = 2
    /\ ~hist.failures[2].sent
    /\ HeadsOf(wire) = <<>>

\* C4 (as claimed): a body sequence that has a close hook has it invoked
\* exactly once by the end of the cycle, however the cycle ends.
C4_CloseHookOnce ==
    /\ closed <= 1
    /\ (Ended /\ wsgi_iter = "closeable") => closed = 1

\* C5 (as claimed): at every cycle end the connection is told to close
\* exactly when keep_alive is false, and finished() is signalled exactly
\* once, after the last item was produced and after the close hook ran.
C5_Finalization ==
    /\ finished <= 1
    /\ finished = 1 =>
           /\ pending = <<>>
           /\ (wsgi_iter = "closeable" => closed = 1)
    /\ Ended =>
           /\ finished = 1
           /\ conn_closed = (IF keep_alive_ THEN 0 ELSE 1)

\* the body items among the items of q that carry bytes
CarriesBytes(x) == IsBody(x) /\ x.data.len > 0

\* the items of q that generate made from a fragment of an iterable
FromIteration(q) ==
    SelectSeq(q, LAMBDA it : IsBody(it) /\ it.data.src \in {"app", "subst"})

\* item y continues item x: the next bytes of the same fragment, or the
\* first bytes of a later fragment of the same body sequence
InPullOrder(x, y) ==
    /\ x.data.src = y.data.src
    /\ \/ x.data.frag < y.data.frag /\ y.data.off = 0
       \/ /\ x.data.frag = y.data.frag
          /\ x.data.off + x.data.len = y.data.off

\* C6: the items are produced in the order the fragments were pulled and
\* without reordering or losing bytes of a fragment; the header block is
\* produced at most once and before the first body byte; a zero-size chunk
\* is produced only as the last item, after the loop, never for an empty
\* fragment in mid-stream.
C6_Ordering ==
    LET q == Produced
        bytes == SelectSeq(FromIteration(q), CarriesBytes)
    IN  /\ Len(HeadsOf(q)) <= 1
        /\ (headers_sent # NotSent) = (HeadsOf(q) # <<>>)
        /\ \A i \in 1..Len(q) :
               CarriesBytes(q[i]) => \E j \in 1..(i - 1) : IsHead(q[j])
        /\ bytes # <<>> => bytes[1].data.off = 0
        /\ \A i \in 1..(Len(bytes) - 1) : InPullOrder(bytes[i], bytes[i + 1])
        /\ \A i \in 1..Len(bytes) :
               bytes[i].kind = "chunk" =>
                   /\ FromHex(bytes[i].head) = bytes[i].data.len
                   /\ bytes[i].data.len <= MAX_CHUNK_SIZE
        /\ SumBytes(FromIteration(q)) = SumPulled(hist.pulled, iterable)
        /\ \A i \in 1..Len(q) :
               IsZeroChunk(q[i]) =>
                   /\ i = Len(q)
                   /\ PastLoop
                   /\ q[i].data.len = 0

\* C6 witness: a completed chunked cycle: a header block, a fragment split
\* into two chunks, an empty fragment that produced no chunk, and the
\* terminating chunk as the last item
C6_Witness ==
    /\ pc = "done"
    /\ hist.failures = <<>>
    /\ hist.pulled = <<<<"app", MAX_CHUNK_SIZE + 5>>, <<"app", 0>>>>
    /\ Len(wire) = 5
    /\ IsHead(wire[1])
    /\ wire[2].kind = "chunk" /\ wire[3].kind = "chunk"
    /\ wire[4] = RawItem(EmptyBytes)
    /\ IsZeroChunk(wire[5])

\* the connection tokens do not name t
Without(t) == t \notin hist.conn_seen

\* C7: keep_alive follows the priority close > Upgrade > keep-alive over the
\* Connection tokens compared case-insensitively, for every version: false
\* when close is present; otherwise true with the outgoing Connection header
\* forced to Upgrade when upgrade is present; otherwise true when keep-alive
\* is present.
C7_KeepAlivePriority ==
    pc = "kept" =>
        /\ ~Without("close") => ~keep_alive_
        /\ (Without("close") /\ ~Without("upgrade")) =>
               /\ keep_alive_
               /\ HeadersGetAll(headers, "Connection") = <<"Upgrade">>
        /\ (Without("close") /\ Without("upgrade") /\ ~Without("keep-alive")) =>
               keep_alive_
        /\ hist.conn_seen \subseteq {"close", "upgrade", "keep-alive", "te"}

\* C7 witness: keep_alive was applied to an HTTP/1.0 request naming
\* Keep-Alive and Upgrade in mixed case, and answered true with Upgrade
C7_Witness ==
    /\ pc = "kept"
    /\ version = <<1, 0>>
    /\ hist.conn_seen = {"keep-alive", "upgrade"}
    /\ keep_alive_
    /\ HeadersGet(headers, "connection") = "Upgrade"

\* version >= (1, 1)
AtLeast11 == ~VersionLE(version, <<1, 0>>)

\* C8 (as claimed): with none of close, Upgrade, keep-alive among the
\* tokens, keep-alive is true and the outgoing Connection header is
\* keep-alive for every version 1.1 or later, and keep-alive is false for
\* HTTP/1.0 and earlier.
C8_DefaultByVersion ==
    (pc = "kept" /\ Without("close") /\ Without("upgrade") /\ Without("keep-alive")) =>
        IF AtLeast11
        THEN keep_alive_ /\ HeadersGetAll(headers, "Connection") = <<"keep-alive">>
        ELSE ~keep_alive_

\* the decision the priority table of the transfer policy gives
TableChunked(p) ==
    IF p.version[1] < 1 \/ (p.version[1] = 1 /\ p.version[2] = 0) THEN FALSE
    ELSE IF (p.code >= 100 /\ p.code <= 199) \/ p.code \in {204, 304} THEN FALSE
    ELSE IF p.te = "chunked" THEN TRUE
    ELSE ~p.cl

C10_NoChunkedForEmptyStatus ==
    \A i \in 1..Len(Produced) :
        (IsHead(Produced[i]) /\ StatusCode(Produced[i].status) \in {204, 304}) =>
            /\ ~HeadersHas(Produced[i].headers, "Transfer-Encoding")
            /\ \A j \in 1..Len(Produced) : Produced[j].kind # "chunk"
            /\ ~chunked(headers)

\* C10 witness: a completed HTTP/1.1 cycle with status 304 whose header set
\* held Transfer-Encoding: chunked and no Content-Length, and whose fragment
\* went out raw
C10_Witness ==
    /\ pc = "done"
    /\ version = <<1, 1>>
    /\ hist.policy # <<>>
    /\ hist.policy[1].code = 304
    /\ hist.policy[1].te = "chunked"
    /\ ~hist.policy[1].cl
    /\ \E j \in 1..Len(wire) : wire[j].kind = "raw" /\ wire[j].data.len > 0

(* ------------------------------ C11 .. C20 ----------------------------- *)
\* the header block produced in this cycle together with what get_headers
\* decided on: at most one header block is produced per cycle
HeadPolicies ==
    {<<HeadsOf(Produced)[i], hist.policy[i]>> :
        i \in 1..Len(HeadsOf(Produced))}

\* the header block h says Connection: close
SaysClose(h) == HeadersGetAll(h.headers, "connection") = <<"close">>

\* the request carried a Connection header with the value close
ClientClose == "close" \in ConnTokens(request_headers)

\* C11: on an HTTP/1.1 request with a body-bearing status, when the
\* application set a Content-Length and did not fail, chunked is not used:
\* the header block retains Content-Length and has no Transfer-Encoding, no
\* fragment is chunk-framed and no terminating chunk is produced.
C11_ContentLengthNotChunked ==
    \A hp \in HeadPolicies :
        (/\ hp[2].version = <<1, 1>>
         /\ ~has_empty_content(hp[2].code)
         /\ hp[2].cl
         /\ hist.failures = <<>>) =>
            /\ ~hp[2].chunked
            /\ HeadersHas(hp[1].headers, "Content-Length")
            /\ ~HeadersHas(hp[1].headers, "Transfer-Encoding")
            /\ \A j \in 1..Len(Produced) : Produced[j].kind # "chunk"

\* C13: when the client sent Connection: close on an HTTP/1.1 request,
\* keep_alive is false from wsgi_environ on, whatever the application does,
\* and every header block produced carries Connection: close.
C13_ClientClose ==
    (version = <<1, 1>> /\ ClientClose /\ pc # "environ") =>
        /\ ~keep_alive_
        /\ \A i \in 1..Len(Produced) :
               IsHead(Produced[i]) => SaysClose(Produced[i])

\* C13 witness: the client sent Connection: close on HTTP/1.1, the
\* application failed before the header block was sent with an error that
\* is answered by a redirect, and the substitute's header block went out
C13_Witness ==
    /\ version = <<1, 1>>
    /\ ClientClose
    /\ pc = "done"
    /\ Substituted
    /\ ErrorCode(hist.failures[1].exc) \in REDIRECT_CODES
    /\ HeadsOf(wire) # <<>>

\* C14: a header block says Connection: close exactly when keep_alive was
\* false when it was produced; and when the cycle is over with the
\* connection closed after a header block that did not say close, a failure
\* occurred after the header block was sent.
C14_CloseIffNotKeepAlive ==
    /\ Len(hist.policy) = Len(HeadsOf(Produced))
    /\ \A hp \in HeadPolicies : SaysClose(hp[1]) <=> ~hp[2].keep_alive
    /\ \A hp \in HeadPolicies :
          (pc = "done" /\ conn_closed > 0 /\ ~SaysClose(hp[1])) =>
              \E i \in 1..Len(hist.failures) : hist.failures[i].sent

\* C14 witness: a cycle that ended with the connection closed although its
\* header block did not say close
C14_Witness ==
    /\ pc = "done"
    /\ conn_closed > 0
    /\ \E hp \in HeadPolicies : ~SaysClose(hp[1]) /\ hp[2].keep_alive

\* C15: a header block produced when chunked was chosen carries
\* Transfer-Encoding: chunked and no Content-Length; one produced when
\* chunked was not chosen carries no Transfer-Encoding; none carries both.
C15_FramingHeaders ==
    \A hp \in HeadPolicies :
        /\ hp[2].chunked =>
              /\ HeadersGetAll(hp[1].headers, "Transfer-Encoding") = <<"chunked">>
              /\ ~HeadersHas(hp[1].headers, "Content-Length")
        /\ ~hp[2].chunked => ~HeadersHas(hp[1].headers, "Transfer-Encoding")
        /\ ~(/\ HeadersHas(hp[1].headers, "Content-Length")
             /\ HeadersHas(hp[1].headers, "Transfer-Encoding"))

\* C15 witness: chunked was chosen for a header set that held a
\* Content-Length, and the header block went out
C15_Witness ==
    /\ pc = "done"
    /\ \E hp \in HeadPolicies : hp[2].chunked /\ hp[2].cl

\* C20: when the sequence was exhausted and no status was ever set, no
\* header block and no body is produced, the connection is closed and the
\* end of the exchange is signalled.
C20_NoStatusFatal ==
    (Ended /\ status = None) =>
        /\ HeadsOf(Produced) = <<>>
        /\ SumBytes(Produced) = 0
        /\ conn_closed > 0
        /\ finished > 0

\* the (name, value) pairs of a header block, names in lower case
HeaderSetOf(h) == {<<Lower(h[i][1]), h[i][2]>> : i \in 1..Len(h)}

\* Scenario A has run to its end: HTTP/1.1, no request header, one call
\* start_response('200 OK', [('Content-Type', 'text/plain')]), the
\* fragments 'hello' and ' world', no failure
ScenarioA ==
    /\ pc = "done"
    /\ version = <<1, 1>>
    /\ request_headers = <<>>
    /\ Len(hist.calls) = 1
    /\ hist.calls[1].new_status = Status(200)
    /\ hist.calls[1].args = <<<<"Content-Type", "text/plain">>>>
    /\ hist.pulled = <<<<"app", 5>>, <<"app", 6>>>>
    /\ hist.failures = <<>>

\* the output of Scenario A after the header block: the frames 5/hello and
\* 6/ world and the terminating zero-size chunk
ScenarioAFrames ==
    /\ Len(wire) = 4
    /\ IsHead(wire[1])
    /\ wire[1].version = <<1, 1>>
    /\ wire[1].status = <<200, "OK">>
    /\ wire[2] = [kind |-> "chunk", head |-> <<"5">>, data |-> Bytes("app", 1, 5)]
    /\ wire[3] = [kind |-> "chunk", head |-> <<"6">>, data |-> Bytes("app", 2, 6)]
    /\ wire[4] = [kind |-> "chunk", head |-> <<"0">>, data |-> EmptyBytes]

ScenarioAHeaders ==
    {<<"content-type", "text/plain">>, <<"connection", "keep-alive">>,
     <<"transfer-encoding", "chunked">>}

\* C12 as stated: Scenario A produces the status line HTTP/1.1 200 OK, the
\* headers Content-Type: text/plain, Connection: keep-alive and
\* Transfer-Encoding: chunked and no other header, then the frames 5/hello,
\* 6/ world and the terminating zero-size chunk.
C12_ScenarioAExact ==
    ScenarioA =>
        /\ ScenarioAFrames
        /\ HeaderSetOf(wire[1].headers) = ScenarioAHeaders

\* C12 amended: Scenario A produces the status line HTTP/1.1 200 OK, the
\* headers Content-Type: text/plain, Connection: keep-alive and
\* Transfer-Encoding: chunked together with the Server and Date headers of
\* the server and no other header, each once, then the frames 5/hello,
\* 6/ world and the terminating zero-size chunk.
C12_ScenarioAWithServerHeaders ==
    ScenarioA =>
        /\ ScenarioAFrames
        /\ HeaderSetOf(wire[1].headers) =
               ScenarioAHeaders \cup HeaderSetOf(ServerHeaders)
        /\ Len(wire[1].headers) = 5

\* C12 witness: Scenario A has run to its end
C12_Witness == ScenarioA

\* the status is what the last call of start_response left, and every call
\* found what the call before it left
StatusFromCalls ==
    /\ status = IF hist.calls = <<>> THEN None
                ELSE hist.calls[Len(hist.calls)].post_status
    /\ hist.calls # <<>> => hist.calls[1].pre_status = None
    /\ \A i \in 2..Len(hist.calls) :
          hist.calls[i].pre_status = hist.calls[i - 1].post_status

\* C16: a call of start_response without exc_info made when a status is
\* set raises and leaves status and header set as they were; once set, the
\* status changes only through a call with exc_info made while the header
\* block is not sent.
C16_SecondCall ==
    /\ StatusFromCalls
    /\ \A i \in 1..Len(hist.calls) :
          LET c == hist.calls[i]
          IN  /\ (~c.exc /\ c.pre_status # None) =>
                    /\ c.raised
                    /\ c.post_status = c.pre_status
                    /\ c.post = c.pre
              /\ (c.pre_status # None /\ c.post_status # c.pre_status) =>
                    c.exc /\ ~c.sent

\* C16 witness: a second call without exc_info was made and raised, and a
\* later call with exc_info changed the status
C16_Witness ==
    \E i, j \in 1..Len(hist.calls) :
        /\ i < j
        /\ ~hist.calls[i].exc /\ hist.calls[i].raised
        /\ hist.calls[j].exc
        /\ hist.calls[j].pre_status # None
        /\ hist.calls[j].post_status # hist.calls[j].pre_status

\* the header is not a hop-by-hop header
NotHop(p) == Lower(p[1]) \notin HOP_HEADERS

\* C17: a call of start_response that returns has appended to the header
\* set every supplied (name, value) whose name is not hop-by-hop, in the
\* order supplied, and none of the hop-by-hop ones; a hop-by-hop header
\* raises no error: a call raises only for its exc_info or a status
\* already set.
C17_HopHeadersDropped ==
    \A i \in 1..Len(hist.calls) :
        LET c == hist.calls[i]
        IN  /\ ~c.raised => c.post = c.pre \o SelectSeq(c.args, NotHop)
            /\ c.raised => (c.exc /\ c.sent) \/ (~c.exc /\ c.pre_status # None)

\* C17 witness: a call that supplied a hop-by-hop header followed by
\* another header returned, and the header block went out
C17_Witness ==
    /\ pc = "done"
    /\ HeadsOf(wire) # <<>>
    /\ \E i \in 1..Len(hist.calls) :
          LET c == hist.calls[i]
          IN  /\ ~c.raised
              /\ Len(c.args) > 1
              /\ ~NotHop(c.args[1])
              /\ NotHop(c.args[2])

\* a non-empty fragment was pulled
PulledData == \E i \in 1..Len(hist.pulled) : hist.pulled[i][2] > 0

\* the application passed data that is not empty to the write callable
WroteData == \E i \in 1..Len(hist.writes) : hist.writes[i] > 0

\* the status a header block carries is the status set when it was produced,
\* and a call with exc_info made before the header block is sent sets the
\* status
StatusOpenUntilHead ==
    /\ \A i \in 1..Len(Produced) :
          IsHead(Produced[i]) => Produced[i].status = status
    /\ \A i \in 1..Len(hist.calls) :
          (hist.calls[i].exc /\ ~hist.calls[i].sent) =>
              /\ ~hist.calls[i].raised
              /\ hist.calls[i].post_status = hist.calls[i].new_status

\* C18 as stated: for every request and application, a header block is
\* produced only when a non-empty fragment has been pulled or the sequence
\* is exhausted; until then a call of start_response with exc_info changes
\* the status that will be sent.
C18_LazyHeaders ==
    /\ HeadsOf(Produced) # <<>> => PulledData \/ hist.exhausted
    /\ \A i \in 1..Len(hist.flushes) :
          hist.flushes[i].head => hist.flushes[i].len > 0
    /\ StatusOpenUntilHead

\* C18 amended: a header block is produced only when a non-empty fragment
\* has been pulled, or the sequence is exhausted, or data that is not empty
\* has been passed to write, or a fragment or data for write, empty or not,
\* has come while the header set holds an Upgrade header; until
\* then a call of start_response with exc_info changes the status that
\* will be sent.
C18_LazyHeadersUnlessUpgrade ==
    /\ HeadsOf(Produced) # <<>> =>
          \/ PulledData
          \/ hist.exhausted
          \/ WroteData
          \/ /\ HeadersHas(headers, "Upgrade")
             /\ hist.pulled # <<>> \/ hist.writes # <<>>
    /\ \A i \in 1..Len(hist.flushes) :
          hist.flushes[i].head =>
              hist.flushes[i].len > 0 \/ hist.flushes[i].upgrade
    /\ StatusOpenUntilHead

\* C18 witness: an empty fragment was pulled without the header block being
\* produced, then a call with exc_info changed the status, and the header
\* block went out with the new status
C18_Witness ==
    /\ pc = "done"
    /\ hist.pulled # <<>> /\ hist.pulled[1] = <<"app", 0>>
    /\ hist.flushes # <<>> /\ ~hist.flushes[1].head
    /\ \E i \in 1..Len(hist.calls) :
          /\ hist.calls[i].exc
          /\ Len(hist.failures) = 0
          /\ hist.calls[i].pre_status # hist.calls[i].post_status
          /\ HeadsOf(wire) # <<>>
          /\ HeadsOf(wire)[1].status = hist.calls[i].new_status

\* the flush records of the empty fragments pulled while the header block
\* was not sent
EmptyBeforeHead ==
    {i \in 1..Len(hist.flushes) :
        hist.flushes[i].len = 0 /\ ~hist.flushes[i].before}

\* the end of the sequence forces the header block, or fails when no status
\* is set
ExhaustionForces ==
    hist.exhausted =>
        IF pc = "raised" THEN status = None /\ headers_sent = NotSent
        ELSE headers_sent # NotSent

\* C19 as stated: an empty fragment yielded while the header block is not
\* sent flushes the header block and emits no body content.
C19_EmptyFragmentFlushes ==
    \A i \in EmptyBeforeHead :
        /\ hist.flushes[i].head
        /\ hist.flushes[i].after
        /\ SumBytes(hist.flushes[i].items) = 0

\* C19 amended: an empty fragment yielded while the header block is not
\* sent flushes the header block only when the header set holds an Upgrade
\* header; otherwise the header block stays unsent; in both cases one empty
\* item and no body content is emitted. The end of the sequence differs: it
\* forces the header block, or fails when no status is set.
C19_EmptyFragmentKeepsHeaders ==
    /\ \A i \in EmptyBeforeHead :
          /\ hist.flushes[i].head <=> hist.flushes[i].upgrade
          /\ hist.flushes[i].after <=> hist.flushes[i].upgrade
          /\ hist.flushes[i].items = <<RawItem(EmptyBytes)>>
    /\ ExhaustionForces

\* C19 witness: an empty fragment was pulled with a status set, no Upgrade
\* header and the header block not sent; the sequence then ended and the
\* header block went out
C19_Witness ==
    /\ pc = "done"
    /\ hist.exhausted
    /\ hist.failures = <<>>
    /\ \E i \in EmptyBeforeHead :
          /\ ~hist.flushes[i].upgrade
          /\ ~hist.flushes[i].after
          /\ hist.calls # <<>>
          /\ hist.calls[1].post_status = status
    /\ HeadsOf(wire) # <<>>
    /\ wire[1] = RawItem(EmptyBytes)

(* ------------------------------ C21 .. C30 ----------------------------- *)
\* what keep_alive computed from the request in wsgi_environ
RequestKeepAlive ==
    keep_alive(CopyHopHeaders(<<>>, request_headers), version).result

\* C21: once a failure before the header block was replaced by a
\* substitute response, and until a further failure, keep_alive has the
\* value computed from the request when the substitute's status is
\* redirect-class and is false for every other substitute status.
C21_SubstituteKeepAlive ==
    (Substituted /\ Len(hist.failures) = 1) =>
        keep_alive_ = IF StatusCode(status) \in REDIRECT_CODES
                      THEN RequestKeepAlive
                      ELSE FALSE

\* C21 witness: a cycle whose failure was replaced by a redirect ended with
\* keep_alive still true and the connection left open
C21_Witness ==
    /\ pc = "done"
    /\ Substituted /\ Len(hist.failures) = 1
    /\ StatusCode(status) \in REDIRECT_CODES
    /\ keep_alive_
    /\ conn_closed = 0
    /\ HeadsOf(wire) # <<>>

\* the models a call of register visits
Visited(models, include_related) ==
    UNION {LET out == models_from_model(models[i], include_related, {}).out
           IN  {out[k] : k \in 1..Len(out)} : i \in 1..Len(models)}

\* the models in the value register returned
ReturnedModels(ret) ==
    IF ret.kind = "model" THEN {ret.value}
    ELSE {ret.value[k] : k \in 1..Len(ret.value)}

\* C28: a call of register leaves every model that was already registered
\* with the manager it had and out of the value returned, and leaves every
\* name that resolved resolving to the same manager; when every model the
\* call visits was registered, the call changes nothing and returns the
\* empty list.
C28_RegisterRegistered ==
    [][(mapper_ret'.calls # mapper_ret.calls /\ mapper_ret'.op = "register") =>
          LET before == mapper._registered_models
              after == mapper'._registered_models
          IN  /\ \A m \in DOMAIN before :
                    /\ m \in DOMAIN after
                    /\ after[m] = before[m]
                    /\ m \notin ReturnedModels(mapper_ret'.ret)
              /\ \A n \in DOMAIN mapper._registered_names :
                    MapperGetAttr(mapper', n) = MapperGetAttr(mapper, n)
              /\ Visited(mapper_ret'.models, mapper_ret'.include_related)
                     \subseteq DOMAIN before =>
                    /\ mapper' = mapper
                    /\ mapper_ret'.ret = [kind |-> "list", value |-> <<>>]
      ]_vars

\* C28 witness: register was called again with a model that is registered
\* and a related model that is not: the first keeps its manager while the
\* other gets one
C28_Witness ==
    /\ mapper_ret.op = "register"
    /\ mapper_ret.models = <<"A1">>
    /\ mapper_ret.include_related
    /\ mapper_ret.ret = [kind |-> "model", value |-> "B"]
    /\ mapper._registered_models["A1"].id = 1
    /\ mapper._registered_models["B"].id = 2

\* the value of the request's X-Forwarded-For header
ForwardedFor == HeadersGet(request_headers, "X-Forwarded-For")

\* the last hop of an X-Forwarded-For value
LastHop(v) == IF Contains(v, ",") THEN Strip(AfterLast(v, ",")) ELSE v

IsDigit(c) == c \in {"0", "1", "2", "3", "4", "5", "6", "7", "8", "9"}

\* a host: not empty, without separators and blanks
IsHost(t) ==
    /\ t # <<>>
    /\ \A i \in 1..Len(t) : t[i] \notin {",", ":", " "}

\* a port: not empty, digits only
IsPort(t) == t # <<>> /\ \A i \in 1..Len(t) : IsDigit(t[i])

\* the last hop is host or host:port
WellFormedHop(hop) ==
    LET parts == Split(hop, ":")
    IN  /\ Len(parts) \in {1, 2}
        /\ IsHost(parts[1])
        /\ Len(parts) = 2 => IsPort(parts[2])

\* the request has a well-formed X-Forwarded-For header
Forwarded ==
    /\ HeadersHas(request_headers, "X-Forwarded-For")
    /\ WellFormedHop(LastHop(ForwardedFor))

\* the remote address is that of the last hop of a well-formed
\* X-Forwarded-For header, with the port 80 when it names none
RemoteOfLastHop ==
    Forwarded =>
        LET parts == Split(LastHop(ForwardedFor), ":")
        IN  /\ environ.REMOTE_ADDR = parts[1]
            /\ environ.REMOTE_PORT =
                   IF Len(parts) = 2 THEN parts[2] ELSE <<"8", "0">>

\* C27: once the context is built, the remote address is the last hop of a
\* well-formed X-Forwarded-For header, with the port 80 when it names none,
\* and the address of the transport's peer when the header is absent or
\* malformed.
C27_RemoteAddress ==
    pc = "call" =>
        /\ RemoteOfLastHop
        /\ ~Forwarded =>
              /\ environ.REMOTE_ADDR = PeerAddress.host
              /\ environ.REMOTE_PORT = Dec(PeerAddress.port)

\* the 100 Continue responses written to the transport
Continues == SelectSeq(wire, LAMBDA x : x.kind = "continue")

\* the request declares Expect: 100-continue
Expects == HeadersHasValue(parser.message.headers, "expect", "100-continue")

\* C25: however often expect_continue is called for a request, the
\* 100 Continue bytes are written at most once.
C25_ExpectContinueOnce == Len(Continues) <= 1

\* C26: over the calls of data_received for one request (expect_continue
\* not being called from elsewhere), the 100 Continue bytes are written
\* exactly when the request declares Expect: 100-continue and the message
\* was not complete when its headers became complete, and not at all when
\* the body arrived with the headers; they are written at most once, first
\* on the transport, and only by a call that leaves the message incomplete,
\* hence before the environ is built and generate is handed over.
C26_ContinueBeforeBody ==
    /\ [](parser.expect_calls = 0 =>
            /\ Len(Continues) <= 1
            /\ Continues # <<>> => wire[1] = ContinueItem
            /\ Continues # <<>> <=>
                  (parser.has_headers /\ Expects /\ ~parser.with_headers)
            /\ hist.app_calls = 0)
    /\ [][(parser'.expect_calls = 0 /\ wire' # wire) =>
              (pc' = "receive" /\ ~parser'.message_complete)]_vars

\* C26 witness: the headers of a request with Expect: 100-continue came
\* before its body, the 100 Continue was written, and a later call
\* completed the message
C26_Witness ==
    /\ pc = "call"
    /\ parser.expect_calls = 0
    /\ parser.fed > 1
    /\ wire = <<ContinueItem>>
    /\ ~parser.with_headers

RECURSIVE Decode(_)
\* a chunked-body reader applied to the items of a stream: per frame it
\* reads the size in hexadecimal and then that many bytes; it ends at the
\* frame of size zero. data is what it has read, ended whether it met the
\* zero-size frame, rest what follows that frame, ok whether every frame
\* held as many bytes as it announced
Decode(items) ==
    IF items = <<>>
    THEN [data |-> <<>>, ended |-> FALSE, rest |-> <<>>, ok |-> TRUE]
    ELSE LET x == items[1]
             n == IF x.kind = "chunk" THEN FromHex(x.head) ELSE 0
         IN  IF x.kind = "raw" /\ x.data.len = 0 THEN Decode(Tail(items))
             ELSE IF x.kind # "chunk" \/ n # x.data.len
             THEN [data |-> <<>>, ended |-> FALSE, rest |-> Tail(items),
                   ok |-> FALSE]
             ELSE IF n = 0
             THEN [data |-> <<>>, ended |-> TRUE, rest |-> Tail(items),
                   ok |-> TRUE]
             ELSE LET d == Decode(Tail(items))
                  IN  [d EXCEPT !.data = <<x.data>> \o @]

RECURSIVE Joined(_)
\* the bytes of a sequence of slices, joined: empty slices vanish and a
\* slice that continues the one before it is one slice with it
Joined(q) ==
    IF q = <<>> THEN <<>>
    ELSE IF q[1].len = 0 THEN Joined(Tail(q))
    ELSE IF /\ Len(q) > 1
            /\ q[2].src = q[1].src /\ q[2].frag = q[1].frag
            /\ q[2].off = q[1].off + q[1].len
    THEN Joined(<<[q[1] EXCEPT !.len = @ + q[2].len]>> \o SubSeq(q, 3, Len(q)))
    ELSE <<q[1]>> \o Joined(Tail(q))

\* the fragments pulled, as they were pulled
PulledFragments ==
    [i \in 1..Len(hist.pulled) |-> Bytes(hist.pulled[i][1], i, hist.pulled[i][2])]

\* C24: when every fragment of a sequence has been encoded, fragments of
\* MAX_CHUNK_SIZE bytes or more in consecutive chunks of at most
\* MAX_CHUNK_SIZE bytes, and the terminating chunk appended, a chunked
\* reader reads exactly the bytes of the fragments in order and ends at
\* the zero-size chunk, which is the last item.
C24_ChunkRoundTrip ==
    pc = "encoded" =>
        LET d == Decode(wire)
        IN  /\ d.ok /\ d.ended /\ d.rest = <<>>
            /\ Joined(d.data) = Joined(PulledFragments)
            /\ \A i \in 1..Len(wire) : wire[i].data.len <= MAX_CHUNK_SIZE

\* C24 witness: a fragment of two full chunks followed by one of a full
\* chunk and a byte went out as four chunks and the terminating chunk
C24_Witness ==
    /\ pc = "encoded"
    /\ hist.pulled = <<<<"app", 2 * MAX_CHUNK_SIZE>>,
                       <<"app", MAX_CHUNK_SIZE + 1>>>>
    /\ Len(wire) = 5
    /\ wire[4].data.len = 1


\* the wire items that carry body bytes
Carrying(q) == SelectSeq(q, LAMBDA it : IsBody(it) /\ it.data.len > 0)

RECURSIVE Flushed(_)
\* the body items made from the fragments of the flushes f, in order
Flushed(f) == IF f = <<>> THEN <<>> ELSE f[1].items \o Flushed(Tail(f))

ErrorAfterHead(c) == c.exc /\ c.sent

\* the call c raised and changed neither the status nor the header set
RaisedUnchanged(c) ==
    /\ c.raised
    /\ c.post = c.pre
    /\ c.post_status = c.pre_status

\* generate caught the error of such a call after the header block was sent,
\* nothing was produced since, keep_alive is false and the connection is
\* closed when the cycle is over
FatalTruncated ==
    /\ \E i \in 1..Len(hist.failures) :
          /\ hist.failures[i].exc = RaiseTuple
          /\ hist.failures[i].sent
          /\ Len(Produced) = hist.failures[i].wire
    /\ ~keep_alive_
    /\ pc = "done" => conn_closed = 1

\* C29 as stated: a call of start_response with exc_info after the header
\* block was sent raises and leaves status and header set unchanged, and the
\* cycle always ends fatal and truncated: no further bytes, keep_alive
\* false, connection closed.
C29_ErrorAfterHeadAlwaysFatal ==
    \A i \in 1..Len(hist.calls) :
        ErrorAfterHead(hist.calls[i]) =>
            RaisedUnchanged(hist.calls[i]) /\ FatalTruncated

\* C29 amended: such a call raises and leaves status and header set
\* unchanged; when the application does not catch the error, the cycle ends
\* fatal and truncated: no further bytes, keep_alive false, connection
\* closed.
C29_ErrorAfterHeadFatalUnlessCaught ==
    \A i \in 1..Len(hist.calls) :
        ErrorAfterHead(hist.calls[i]) =>
            /\ RaisedUnchanged(hist.calls[i])
            /\ ~hist.calls[i].caught => FatalTruncated

\* C29 witness: a cycle is over in which the error of such a call reached
\* generate after a body item was handed on
C29_Witness ==
    /\ pc = "done"
    /\ conn_closed = 1
    /\ Carrying(wire) # <<>>
    /\ \E i \in 1..Len(hist.calls) :
          ErrorAfterHead(hist.calls[i]) /\ ~hist.calls[i].caught

\* C22: when the generator is closed while it is suspended at a yield, the
\* close method of the application's iterable has been called once, and no
\* further item and no header block of an error response is produced.
C22_CancelCleanup ==
    pc = "cancelled" =>
        /\ wsgi_iter = "closeable" => closed = 1
        /\ pending = <<>>
        /\ Len(HeadsOf(wire)) <= 1

\* C30: after a header block with Transfer-Encoding: chunked every item that
\* carries body bytes to the transport is a chunk frame, whether it comes
\* from a fragment of the body sequence or from the write callable; after a
\* header block without it every such item is raw.
C30_BodyFramedAsAnnounced ==
    \A i \in 1..Len(wire) :
        IsHead(wire[i]) =>
            \A j \in (i + 1)..Len(wire) :
                CarriesBytes(wire[j]) =>
                    (wire[j].kind = "chunk") = chunked(wire[i].headers)


(* ------------------------------ C31 .. C33 ----------------------------- *)
\* the call c of start_response supplied exc_info before the header block
\* was sent
ErrorBeforeHead(c) == c.exc /\ ~c.sent

\* the pair p is an element of the header set h
Holds(h, p) == \E k \in 1..Len(h) : h[k] = p

\* the call c replaced the status and added its non-hop headers after the
\* headers that were there, which it left as they were
StatusReplacedHeadersKept(c) ==
    /\ ~c.raised
    /\ c.post_status = c.new_status
    /\ SubSeq(c.post, 1, Len(c.pre)) = c.pre
    /\ SubSeq(c.post, Len(c.pre) + 1, Len(c.post)) = SelectSeq(c.args, NotHop)

\* every header block produced holds the non-hop headers of the calls made
\* before a call with exc_info that came before the header block was sent
HeadKeepsEarlierHeaders ==
    \A n \in 1..Len(Produced) :
        IsHead(Produced[n]) =>
            \A j \in 1..Len(hist.calls) :
                ErrorBeforeHead(hist.calls[j]) =>
                    \A i \in 1..(j - 1) :
                        \A k \in 1..Len(hist.calls[i].args) :
                            (~hist.calls[i].raised
                             /\ NotHop(hist.calls[i].args[k])) =>
                                Holds(Produced[n].headers,
                                      hist.calls[i].args[k])

\* C31: a call of start_response with exc_info before the header block was
\* sent replaces the status and clears no header: its headers are added to
\* those of the earlier call, and the header block of the substitute
\* response still holds the failed response's non-hop headers.
C31_SubstituteKeepsHeaders ==
    /\ \A j \in 1..Len(hist.calls) :
          ErrorBeforeHead(hist.calls[j]) =>
              StatusReplacedHeadersKept(hist.calls[j])
    /\ HeadKeepsEarlierHeaders


\* no two children of a Router have equal routes
NoEqualSiblings ==
    \A s \in Routers :
        \A i, j \in 1..Len(routers[s].routes) :
            i # j => routers[routers[s].routes[i]].route
                         # routers[routers[s].routes[j]].route

\* the call self.add_child(router) found a child with an equal route: it
\* returns that child, whose parameters took those of router, and nothing
\* else changed
ReturnsExisting(self, router) ==
    LET r == EqualRoutes(routers, self, router)[1]
    IN  /\ router_ret'.raised = "None"
        /\ router_ret'.ret = r
        /\ routers' = [routers EXCEPT ![r].parameters =
                          DictUpdate(@, routers[router].parameters)]

\* the call self.add_child(router) found no child with an equal route:
\* router left the routes of its previous parent, has self as parent and is
\* the one new element of self.routes
Adopted(self, router) ==
    LET p == routers[router]._parent
    IN  /\ router_ret'.raised = "None"
        /\ router_ret'.ret = router
        /\ routers'[router]._parent = self
        /\ routers'[self].routes = Append(routers[self].routes, router)
        /\ router \notin Elements(routers[self].routes)
        /\ (p # "None" /\ p # self) =>
               router \notin Elements(routers'[p].routes)
        /\ \A o \in Routers \ {router} :
               routers'[o]._parent = routers[o]._parent

\* C32: add_child never makes two children with equal routes: with a child
\* of equal route it returns that child, merges the parameters of the new
\* router into it and leaves routes and parent links as they are; otherwise
\* the router leaves its previous parent, gets this router as parent and is
\* appended once to routes.
C32_AddChild ==
    /\ []NoEqualSiblings
    /\ [][(router_ret'.op = "add_child"
           /\ router_ret'.calls = router_ret.calls + 1
           /\ router_ret'.self # router_ret'.router) =>
              IF EqualRoutes(routers, router_ret'.self, router_ret'.router)
                     # <<>>
              THEN ReturnsExisting(router_ret'.self, router_ret'.router)
              ELSE Adopted(router_ret'.self, router_ret'.router)]_vars


\* the managers that are registered
RegisteredManagers ==
    {mapper._registered_models[m] : m \in DOMAIN mapper._registered_models}

\* C33: after any calls of register and unregister, every name that
\* resolves by attribute lookup gives a manager that is registered, and
\* after unregister() without a model no name resolves.
C33_NamesResolveToRegistered ==
    /\ \A name \in DOMAIN mapper._registered_names :
          MapperGetAttr(mapper, name) \in RegisteredManagers
    /\ (mapper_ret.op = "unregister" /\ mapper_ret.model = "None") =>
          \A m \in Models : MapperGetAttr(mapper, MetaName(m)) = NoManager

=============================================================================
